---- MODULE Spec2Model ----
(***************************************************************************)
(* The event-analysis batch pipeline of the life planner: the Analysis     *)
(* Client (analyzeCalendarEvent), the Batch Dispatcher                     *)
(* (analyzeBatchEvents), the Task Materializer (saveAnalyzedEvent) and the *)
(* Task Bucketizer (getUpcomingTasks).                                     *)
(*                                                                         *)
(* The repository holds two drafts of lib/ai/event-analyzer.ts.  The       *)
(* settings-aware draft keeps the source's names; the definitions of the   *)
(* simpler draft carry the suffix Simple.                                  *)
(***************************************************************************)
EXTENDS Integers, Sequences, FiniteSets, TLC

(***************************************************************************)
(* Bounds of the model.                                                    *)
(***************************************************************************)
\* longest input sequence handed to analyzeBatchEvents
MaxEvents == 2
\* number of distinct external calendar event ids
NumEventIds == 2
\* rate-limit errors signalled during one batch run (the code sets no bound)
MaxRateLimits == 1

EventIds == 1..NumEventIds

(***************************************************************************)
(* JavaScript values, as far as the analyzer reads them: a tag and, where  *)
(* the tag has one, a payload.  Numbers are kept in tenths (0.8 is 8).     *)
(***************************************************************************)
Undefined == [t |-> "undefined"]
Null == [t |-> "null"]
Bool(b) == [t |-> "boolean", v |-> b]
Str(s) == [t |-> "string", v |-> s]
Num(n) == [t |-> "number", v |-> n]
Arr(a) == [t |-> "array", v |-> a]
Obj(f) == [t |-> "object", v |-> f]

\* ToBoolean: undefined, null, false, 0 and "" are falsy
Truthy(x) ==
  CASE x.t = "undefined" -> FALSE
    [] x.t = "null" -> FALSE
    [] x.t = "boolean" -> x.v
    [] x.t = "string" -> x.v # ""
    [] x.t = "number" -> x.v # 0
    [] OTHER -> TRUE

\* a || b
Or(a, b) == IF Truthy(a) THEN a ELSE b

\* x.name for x neither null nor undefined: a field of an object, undefined
\* on a number, string, boolean or array (none of the names read is theirs)
Prop(x, name) ==
  IF x.t = "object" /\ name \in DOMAIN x.v THEN x.v[name] ELSE Undefined

\* Array.isArray(x)
IsArray(x) == x.t = "array"

(***************************************************************************)
(* The LLM provider.  A call of anthropic.messages.create either rejects   *)
(* with an Error or resolves to a response whose content is a list of      *)
(* blocks.  A text is prose before, a body, prose after; the prose holds   *)
(* no brace.  The body is nothing, a {...} span that is not JSON, or a     *)
(* JSON value.                                                             *)
(***************************************************************************)
Text(pre, form, value, post) ==
  [pre |-> pre, form |-> form, value |-> value, post |-> post]

TextReply(text) ==
  [kind |-> "response", content |-> <<[type |-> "text", text |-> text]>>]

RateLimitMessage == "429 rate_limit_error"
NetworkMessage == "Connection error."
MessagesWith429 == {RateLimitMessage, "429"}

\* error.message.includes('429')
Includes429(message) == message \in MessagesWith429

NetworkError == [kind |-> "error", message |-> NetworkMessage]
RateLimitError == [kind |-> "error", message |-> RateLimitMessage]
EmptyContent == [kind |-> "response", content |-> <<>>]
ToolUseReply == [kind |-> "response", content |-> <<[type |-> "tool_use"]>>]

SitterTask ==
  Obj([title |-> Str("Book babysitter"), type |-> Str("booking"),
       priority |-> Str("high"), dueDate |-> Str("2025-01-03")])
SitterSuggestion ==
  Obj([title |-> Str("Book babysitter"), type |-> Str("booking"),
       priority |-> Str("high"), daysBeforeEvent |-> Num(70)])

\* the reply the settings-aware prompt asks for
PartyObject ==
  Obj([eventType |-> Str("social"), requiresSitter |-> Bool(TRUE),
       requiresTravel |-> Bool(FALSE), requiresFormalAttire |-> Bool(FALSE),
       tasks |-> Arr(<<SitterTask>>), reasoning |-> Str("evening party"),
       confidence |-> Num(9)])
\* the reply the simpler prompt asks for
PartyObjectSimple ==
  Obj([eventType |-> Str("social"), requiresSitter |-> Bool(TRUE),
       requiresTravel |-> Bool(FALSE), requiresFormalAttire |-> Bool(FALSE),
       suggestedTasks |-> Arr(<<SitterSuggestion>>), preparations |-> Arr(<<>>),
       notes |-> Str("evening party")])
EmptyObject == Obj(<<>>)
\* an object without the task list, its confidence 0
NoTasksObject == Obj([eventType |-> Str("work"), confidence |-> Num(0)])

ProviderReplies ==
  { NetworkError, RateLimitError, EmptyContent, ToolUseReply,
    TextReply(Text(TRUE, "none", Undefined, FALSE)),
    TextReply(Text(FALSE, "broken", Undefined, FALSE)),
    TextReply(Text(FALSE, "json", Null, FALSE)),
    TextReply(Text(FALSE, "json", Num(420), FALSE)),
    TextReply(Text(FALSE, "json", EmptyObject, FALSE)),
    TextReply(Text(FALSE, "json", NoTasksObject, FALSE)),
    TextReply(Text(FALSE, "json", PartyObject, FALSE)),
    TextReply(Text(TRUE, "json", PartyObject, TRUE)),
    TextReply(Text(TRUE, "json", PartyObjectSimple, FALSE)) }

\* text.match(/\{[\s\S]*\}/): the span from the first { to the last }
Match(text) ==
  IF text.form = "broken" \/ (text.form = "json" /\ text.value.t = "object")
  THEN [found |-> TRUE, text |-> Text(FALSE, text.form, text.value, FALSE)]
  ELSE [found |-> FALSE, text |-> text]

\* JSON.parse(text): a SyntaxError unless the whole text is one JSON value
JSONparse(text) ==
  IF text.pre \/ text.post \/ text.form # "json"
  THEN [ok |-> FALSE, value |-> Undefined]
  ELSE [ok |-> TRUE, value |-> text.value]

Return(value) == [kind |-> "return", value |-> value]
Throw(message) == [kind |-> "throw", isError |-> TRUE, message |-> message]

(***************************************************************************)
(* Analysis Client, settings-aware draft.                                  *)
(***************************************************************************)
\* tenths: confidence 0.1 of the default analysis
DefaultConfidence == 1
\* tenths: confidence 0.8 given to a reply that names none
AssumedConfidence == 8

DefaultAnalysis ==
  [eventType |-> Str("other"), requiresSitter |-> Bool(FALSE),
   requiresTravel |-> Bool(FALSE), requiresFormalAttire |-> Bool(FALSE),
   tasks |-> Arr(<<>>), reasoning |-> Str("Analysis failed - using defaults"),
   confidence |-> Num(DefaultConfidence)]

\* the object literal built from the parsed reply
AnalysisOf(analysis) ==
  [eventType |-> Or(Prop(analysis, "eventType"), Str("other")),
   requiresSitter |-> Or(Prop(analysis, "requiresSitter"), Bool(FALSE)),
   requiresTravel |-> Or(Prop(analysis, "requiresTravel"), Bool(FALSE)),
   requiresFormalAttire |-> Or(Prop(analysis, "requiresFormalAttire"), Bool(FALSE)),
   tasks |-> Or(Prop(analysis, "tasks"), Arr(<<>>)),
   reasoning |-> Or(Prop(analysis, "reasoning"), Str("")),
   confidence |-> Or(Prop(analysis, "confidence"), Num(AssumedConfidence))]

\* the try block and its catch: whatever is thrown inside the try ends in
\* the default analysis
analyzeCalendarEvent(reply) ==
  IF reply.kind = "error" THEN Return(DefaultAnalysis)
  ELSE IF reply.content = <<>> THEN Return(DefaultAnalysis)
  ELSE IF reply.content[1].type # "text" THEN Return(DefaultAnalysis)
  ELSE
    LET text == reply.content[1].text
        jsonMatch == Match(text)
        analysisText == IF jsonMatch.found THEN jsonMatch.text ELSE text
        parsed == JSONparse(analysisText)
    IN IF ~parsed.ok THEN Return(DefaultAnalysis)
       ELSE IF parsed.value.t \in {"null", "undefined"} THEN Return(DefaultAnalysis)
       ELSE Return(AnalysisOf(parsed.value))

(***************************************************************************)
(* Analysis Client, simpler draft.                                         *)
(***************************************************************************)
DefaultAnalysisSimple ==
  [eventType |-> Str("other"), requiresSitter |-> Bool(FALSE),
   requiresTravel |-> Bool(FALSE), requiresFormalAttire |-> Bool(FALSE),
   suggestedTasks |-> Arr(<<>>), preparations |-> Arr(<<>>),
   notes |-> Str("Analysis failed - manual review recommended")]

analyzeCalendarEventSimple(reply) ==
  IF reply.kind = "error" THEN Return(DefaultAnalysisSimple)
  ELSE IF reply.content = <<>> THEN Return(DefaultAnalysisSimple)
  ELSE IF reply.content[1].type # "text" THEN Return(DefaultAnalysisSimple)
  ELSE
    LET jsonMatch == Match(reply.content[1].text)
        parsed == JSONparse(jsonMatch.text)
    IN IF ~jsonMatch.found THEN Return(DefaultAnalysisSimple)
       ELSE IF ~parsed.ok THEN Return(DefaultAnalysisSimple)
       ELSE IF ~Truthy(Prop(parsed.value, "eventType"))
                 \/ ~IsArray(Prop(parsed.value, "suggestedTasks"))
            THEN Return(DefaultAnalysisSimple)
       ELSE Return(parsed.value.v)

(***************************************************************************)
(* State.                                                                  *)
(***************************************************************************)
VARIABLES
  variant,       \* the draft of lib/ai/event-analyzer.ts in use
  events,        \* analyzeBatchEvents: the input sequence (event ids)
  i,             \* its loop index, counted from 0 as in the source
  pc,            \* where the dispatcher is suspended
  results,       \* its Map from event id to EventAnalysis
  inflight,      \* indices whose Analysis Client call has not settled
  batchResults,  \* simpler draft: what the calls of the chunk resolved to
  elapsed,       \* ms the dispatcher has slept since the last call settled
  rateLimits,    \* rate-limit errors signalled so far
  log            \* every client call: index, sleep before it, reply, outcome

batchVars ==
  <<variant, events, i, pc, results, inflight, batchResults, elapsed,
    rateLimits, log>>

VARIABLES
  analyzedEvent,  \* the rows of the AnalyzedEvent table
  suggestedTask,  \* the rows of the SuggestedTask table (the PersistedTasks)
  created,        \* rows created so far in each table: the next row ids
  now,            \* the clock, in ticks, when the calls of a run are made
  call,           \* the last call of the data layer: operation and arguments
  ret             \* what that call returned or threw

storeVars == <<analyzedEvent, suggestedTask, created, now, call, ret>>

VARIABLES
  request,      \* the analyze request being handled: who posted it and what
  savedEvents,  \* the route's savedEvents: ids of the rows its saves answered
  response      \* the response the route sent for the request

routeVars == <<request, savedEvents, response>>

VARIABLES
  route,  \* the draft of app/api/calendar/analyze/route.ts that is deployed
  saves   \* the saveAnalyzedEvent calls that run side by side, step by step

VARIABLES
  household,  \* the rows of the Household table
  user,       \* the signed-in user's row: the household it is connected to
  lookups     \* the calls that get or create the user's household

houseVars == <<household, user, lookups>>

VARIABLES
  dashboard,  \* the state of the Dashboard component and its open requests
  history     \* what the dashboard did: loads, clicks, analyze requests

clientVars == <<dashboard, history>>

appVars == <<route, saves, houseVars, clientVars>>

vars == <<batchVars, storeVars, routeVars, appVars>>

Min(a, b) == IF a < b THEN a ELSE b

\* saveAnalyzedEvent calls that can run side by side
NumSaves == 2
Procs == 1..NumSaves

\* a call that has not been made
Idle == [pc |-> "idle"]

\* lookups of the user's household that can run side by side: the
\* dashboard's GET and POST of the analyze route and the settings GET
NumLookups == 3
Lookups == 1..NumLookups

\* the user has signed in and has no household yet
InitHouseholds ==
  /\ household = {}
  /\ user = [householdId |-> {}]
  /\ lookups = [p \in Lookups |-> Idle]

\* the Dashboard component as useState initialises it
InitDashboard ==
  /\ dashboard = [events |-> 0, analyzing |-> FALSE, lastAnalyzed |-> Null,
                  error |-> Null, effectDue |-> TRUE, loads |-> 0,
                  requests |-> 0]
  /\ history = <<>>

\* the rest of the application at rest: the later draft of the analyze
\* route deployed, no saveAnalyzedEvent under way
InitApp ==
  /\ route = "v2"
  /\ saves = [p \in Procs |-> Idle]
  /\ InitHouseholds
  /\ InitDashboard

\* no analyze request has arrived; none has been answered
NoRequest == [count |-> 0]
NoResponse == [status |-> 0]

\* Map.set(key, value)
MapSet(m, key, value) ==
  [k \in DOMAIN m \cup {key} |-> IF k = key THEN value ELSE m[k]]

NoReply == [kind |-> "none"]
Pending == [kind |-> "pending"]

\* the position in the log of the call of index idx that has not settled
OpenCall(idx) ==
  CHOOSE n \in 1..Len(log) : log[n].i = idx /\ log[n].outcome = Pending

Logged(idx, reply, next, outcome) ==
  [log EXCEPT ![OpenCall(idx)] =
     [@ EXCEPT !.reply = reply, !.next = next, !.outcome = outcome]]

Call(idx, waited) ==
  [i |-> idx, waited |-> waited, reply |-> NoReply, next |-> NoReply,
   outcome |-> Pending]

\* the id of the event of a request that has a start and no end
NoEndEventId == 0

\* event.end is an object
HasEnd(eventId) == eventId # NoEndEventId

\* event.end.dateTime where event.end is undefined: analyzeCalendarEvent
\* throws before its try and before any request to the provider
NoEndError == Throw("Cannot read properties of undefined (reading 'dateTime')")

\* a call that threw at once
Thrown(idx, waited) == [Call(idx, waited) EXCEPT !.outcome = NoEndError]

(***************************************************************************)
(* Batch Dispatcher, settings-aware draft.                                 *)
(***************************************************************************)
delayBetweenRequests == 1500
rateLimitCooldown == 60000

\* the analysis the dispatcher's own catch records
DispatcherDefault ==
  [eventType |-> Str("other"), requiresSitter |-> Bool(FALSE),
   requiresTravel |-> Bool(FALSE), requiresFormalAttire |-> Bool(FALSE),
   tasks |-> Arr(<<>>), reasoning |-> Str("Analysis failed due to error"),
   confidence |-> Num(DefaultConfidence)]

\* for (...; i < events.length; ...): the body starts, up to the await of
\* analyzeCalendarEvent, which has sent its request to the provider
CallClient ==
  /\ UNCHANGED <<storeVars, routeVars, appVars>>
  /\ pc = "loop"
  /\ variant = "enhanced"
  /\ i < Len(events)
  /\ HasEnd(events[i + 1])
  /\ inflight' = inflight \cup {i}
  /\ log' = Append(log, Call(i, elapsed))
  /\ elapsed' = 0
  /\ pc' = "client"
  /\ UNCHANGED <<variant, events, i, results, batchResults, rateLimits>>

\* the 429 branch taken as any other error: the default is recorded and the
\* loop advances
SettleNoRetry(outcome) ==
  /\ IF outcome.kind = "return"
     THEN /\ results' = MapSet(results, events[i + 1], outcome.value)
          /\ IF i < Len(events) - 1
             THEN pc' = "delay" /\ i' = i
             ELSE pc' = "loop" /\ i' = i + 1
     ELSE /\ results' = MapSet(results, events[i + 1], DispatcherDefault)
          /\ pc' = "loop"
          /\ i' = i + 1

\* the catch sleeps the cooldown and retries whatever the error is
SettleRetryAll(outcome) ==
  IF outcome.kind = "return"
  THEN /\ results' = MapSet(results, events[i + 1], outcome.value)
       /\ IF i < Len(events) - 1
          THEN pc' = "delay" /\ i' = i
          ELSE pc' = "loop" /\ i' = i + 1
  ELSE /\ pc' = "cooldown"
       /\ UNCHANGED <<results, i>>

\* the rest of the loop body once the awaited call has settled: the try
\* after the await, or the catch
Settle(outcome) ==
  IF outcome.kind = "return"
  THEN /\ results' = MapSet(results, events[i + 1], outcome.value)
       /\ IF i < Len(events) - 1
          THEN pc' = "delay" /\ i' = i
          ELSE pc' = "loop" /\ i' = i + 1
  ELSE IF outcome.isError /\ Includes429(outcome.message)
  THEN /\ pc' = "cooldown"
       /\ UNCHANGED <<results, i>>
  ELSE /\ results' = MapSet(results, events[i + 1], DispatcherDefault)
       /\ pc' = "loop"
       /\ i' = i + 1

\* the body starts with an event that has no end: analyzeCalendarEvent
\* throws at once and the catch runs
CallClientThrows ==
  /\ UNCHANGED <<storeVars, routeVars, appVars>>
  /\ pc = "loop"
  /\ variant = "enhanced"
  /\ i < Len(events)
  /\ ~HasEnd(events[i + 1])
  /\ log' = Append(log, Thrown(i, elapsed))
  /\ elapsed' = 0
  /\ Settle(NoEndError)
  /\ UNCHANGED <<variant, events, inflight, batchResults, rateLimits>>

\* the delay fires and the index stays
DelayElapsedStays ==
  /\ UNCHANGED <<storeVars, routeVars, appVars>>
  /\ pc = "delay"
  /\ Len(log) <= MaxEvents
  /\ elapsed' = elapsed + delayBetweenRequests
  /\ i' = i
  /\ pc' = "loop"
  /\ UNCHANGED <<variant, events, results, inflight, batchResults, rateLimits, log>>

\* setTimeout(resolve, delayBetweenRequests) fires; i++
DelayElapsed ==
  /\ UNCHANGED <<storeVars, routeVars, appVars>>
  /\ pc = "delay"
  /\ elapsed' = elapsed + delayBetweenRequests
  /\ i' = i + 1
  /\ pc' = "loop"
  /\ UNCHANGED <<variant, events, results, inflight, batchResults, rateLimits, log>>

\* the cooldown fires and the loop goes on with the next event
CooldownElapsedSkips ==
  /\ UNCHANGED <<storeVars, routeVars, appVars>>
  /\ pc = "cooldown"
  /\ elapsed' = elapsed + rateLimitCooldown
  /\ i' = i + 1
  /\ pc' = "loop"
  /\ UNCHANGED <<variant, events, results, inflight, batchResults, rateLimits, log>>

\* setTimeout(resolve, 60000) fires; i--, continue, i++
CooldownElapsed ==
  /\ UNCHANGED <<storeVars, routeVars, appVars>>
  /\ pc = "cooldown"
  /\ elapsed' = elapsed + rateLimitCooldown
  /\ i' = (i - 1) + 1
  /\ pc' = "loop"
  /\ UNCHANGED <<variant, events, results, inflight, batchResults, rateLimits, log>>

\* the loop condition fails: return results
ReturnResults ==
  /\ UNCHANGED <<storeVars, routeVars, appVars>>
  /\ pc = "loop"
  /\ i >= Len(events)
  /\ pc' = "done"
  /\ UNCHANGED <<variant, events, i, results, inflight, batchResults, elapsed,
                 rateLimits, log>>

(***************************************************************************)
(* The provider answers the request of an Analysis Client call.  With a    *)
(* rate-limit error it also fixes what it would answer if the same request *)
(* were sent again (next).                                                 *)
(***************************************************************************)
Answers(idx) ==
  LET earlier == {n \in 1..Len(log) : log[n].i = idx /\ log[n].next # NoReply}
  IN IF earlier = {}
     THEN ProviderReplies
     ELSE {log[CHOOSE n \in earlier : \A m \in earlier : m <= n].next}

Nexts(reply) == IF reply = RateLimitError THEN ProviderReplies ELSE {NoReply}

\* the provider answers; analyzeCalendarEvent runs to its return and the
\* dispatcher to its next await
ProviderResponds ==
  /\ UNCHANGED <<storeVars, routeVars, appVars>>
  /\ pc = "client"
  /\ \E reply \in Answers(i) : \E next \in Nexts(reply) :
       LET outcome == analyzeCalendarEvent(reply) IN
       /\ Settle(outcome)
       /\ log' = Logged(i, reply, next, outcome)
       /\ rateLimits' = rateLimits + (IF reply = RateLimitError THEN 1 ELSE 0)
  /\ inflight' = inflight \ {i}
  /\ UNCHANGED <<variant, events, batchResults, elapsed>>

(***************************************************************************)
(* The dispatcher under an Analysis Client that may signal errors: the     *)
(* call returns an analysis or throws.                                     *)
(***************************************************************************)
PartyAnalysis == AnalysisOf(PartyObject)

StubOutcomes ==
  { Return(PartyAnalysis), Return(DefaultAnalysis),
    Throw(RateLimitMessage), Throw(NetworkMessage),
    [kind |-> "throw", isError |-> FALSE, message |-> "429"] }

IsRateLimit(outcome) ==
  outcome.kind = "throw" /\ outcome.isError /\ Includes429(outcome.message)

ClientSettles ==
  /\ UNCHANGED <<storeVars, routeVars, appVars>>
  /\ pc = "client"
  /\ \E outcome \in StubOutcomes :
       /\ IsRateLimit(outcome) => rateLimits < MaxRateLimits
       /\ Settle(outcome)
       /\ log' = Logged(i, NoReply, NoReply, outcome)
       /\ rateLimits' = rateLimits + (IF IsRateLimit(outcome) THEN 1 ELSE 0)
  /\ inflight' = inflight \ {i}
  /\ UNCHANGED <<variant, events, batchResults, elapsed>>

(***************************************************************************)
(* Batch Dispatcher, simpler draft: chunks of maxConcurrent events, the    *)
(* calls of a chunk started together by Promise.all.                       *)
(***************************************************************************)
maxConcurrent == 3

Chunk == i .. (Min(i + maxConcurrent, Len(events)) - 1)

RECURSIVE CallsOf(_, _)
CallsOf(from, to) ==
  IF from > to THEN <<>>
  ELSE <<IF HasEnd(events[from + 1]) THEN Call(from, 0) ELSE Thrown(from, 0)>>
         \o CallsOf(from + 1, to)

\* batchResults.forEach: the non-null results are stored in chunk order
RECURSIVE StoreResults(_, _, _, _)
StoreResults(map, resolved, from, to) ==
  IF from > to THEN map
  ELSE StoreResults(
         IF resolved[from].kind = "result"
         THEN MapSet(map, resolved[from].eventId, resolved[from].analysis)
         ELSE map,
         resolved, from + 1, to)

\* what one async callback of the chunk resolves to
CallbackResult(eventId, outcome) ==
  IF outcome.kind = "return"
  THEN [kind |-> "result", eventId |-> eventId, analysis |-> outcome.value]
  ELSE [kind |-> "null"]

\* events.slice(i, i + maxConcurrent) and batch.map(async ...): every call
\* of the chunk runs up to its await of the provider, or throws at once and
\* its callback resolves to null; Promise.all resolves here when no call of
\* the chunk is left waiting
StartChunk ==
  /\ UNCHANGED <<storeVars, routeVars, appVars>>
  /\ pc = "loop"
  /\ variant = "simple"
  /\ i < Len(events)
  /\ LET waiting == {j \in Chunk : HasEnd(events[j + 1])}
         resolved == [j \in Chunk \ waiting |->
                        CallbackResult(events[j + 1], NoEndError)]
     IN /\ inflight' = waiting
        /\ IF waiting = {}
           THEN /\ results' = StoreResults(results, resolved, i,
                                 Min(i + maxConcurrent, Len(events)) - 1)
                /\ batchResults' = <<>>
                /\ i' = i + maxConcurrent
                /\ pc' = "loop"
           ELSE /\ batchResults' = resolved
                /\ pc' = "all"
                /\ UNCHANGED <<results, i>>
  /\ log' = log \o CallsOf(i, Min(i + maxConcurrent, Len(events)) - 1)
  /\ UNCHANGED <<variant, events, elapsed, rateLimits>>

\* the provider answers one call of the chunk; when it was the last one
\* Promise.all resolves, the results are stored and the loop advances
ChunkCallSettles ==
  /\ UNCHANGED <<storeVars, routeVars, appVars>>
  /\ pc = "all"
  /\ \E j \in inflight : \E reply \in Answers(j) : \E next \in Nexts(reply) :
       LET outcome == analyzeCalendarEventSimple(reply)
           resolved == [k \in DOMAIN batchResults \cup {j} |->
                          IF k = j THEN CallbackResult(events[j + 1], outcome)
                          ELSE batchResults[k]]
       IN
       /\ log' = Logged(j, reply, next, outcome)
       /\ rateLimits' = rateLimits + (IF reply = RateLimitError THEN 1 ELSE 0)
       /\ inflight' = inflight \ {j}
       /\ IF inflight' = {}
          THEN /\ results' = StoreResults(results, resolved, i,
                                          Min(i + maxConcurrent, Len(events)) - 1)
               /\ batchResults' = <<>>
               /\ i' = i + maxConcurrent
               /\ pc' = "loop"
          ELSE /\ batchResults' = resolved
               /\ UNCHANGED <<results, i, pc>>
  /\ UNCHANGED <<variant, events, elapsed>>

(***************************************************************************)
(* Specifications of the batch pipeline.                                   *)
(***************************************************************************)
EventSeqs == UNION {[1..n -> EventIds] : n \in 0..MaxEvents}

\* the events of a request: some may have no end
RequestSeqs ==
  UNION {[1..n -> EventIds \cup {NoEndEventId}] : n \in 0..MaxEvents}

InitDispatcher ==
  /\ variant = "enhanced"
  /\ events \in EventSeqs
  /\ i = 0
  /\ pc = "loop"
  /\ results = <<>>
  /\ inflight = {}
  /\ batchResults = <<>>
  /\ elapsed = 0
  /\ rateLimits = 0
  /\ log = <<>>
  /\ analyzedEvent = {}
  /\ suggestedTask = {}
  /\ created = [table \in {"analyzedEvent", "suggestedTask"} |-> 0]
  /\ now = 0
  /\ call = [op |-> "none"]
  /\ ret = [kind |-> "none"]
  /\ request = NoRequest
  /\ savedEvents = <<>>
  /\ response = NoResponse
  /\ InitApp

InitBatch ==
  /\ variant \in {"enhanced", "simple"}
  /\ events \in RequestSeqs
  /\ i = 0
  /\ pc = "loop"
  /\ results = <<>>
  /\ inflight = {}
  /\ batchResults = <<>>
  /\ elapsed = 0
  /\ rateLimits = 0
  /\ log = <<>>
  /\ analyzedEvent = {}
  /\ suggestedTask = {}
  /\ created = [table \in {"analyzedEvent", "suggestedTask"} |-> 0]
  /\ now = 0
  /\ call = [op |-> "none"]
  /\ ret = [kind |-> "none"]
  /\ request = NoRequest
  /\ savedEvents = <<>>
  /\ response = NoResponse
  /\ InitApp

\* both drafts, each with its own Analysis Client and the provider.  No
\* cooldown step: pc = "cooldown" is entered only from a throwing client.
NextBatch ==
  \/ CallClient
  \/ CallClientThrows
  \/ ProviderResponds
  \/ DelayElapsed
  \/ StartChunk
  \/ ChunkCallSettles
  \/ ReturnResults

SpecBatch == InitBatch /\ [][NextBatch]_vars

\* the settings-aware dispatcher under an Analysis Client that may throw
NextDispatcher ==
  \/ CallClient
  \/ ClientSettles
  \/ DelayElapsed
  \/ CooldownElapsed
  \/ ReturnResults

SpecDispatcher == InitDispatcher /\ [][NextDispatcher]_vars

\* the same, with the event loop running every timer and every settled
\* promise's continuation, and every client call settling
SpecDispatcherFair == SpecDispatcher /\ WF_vars(NextDispatcher)

(***************************************************************************)
(* Properties of the Analysis Client and the Batch Dispatcher.             *)
(***************************************************************************)
Settled(n) == log[n].outcome # Pending

\* the calls made for events that carry the id
CallsFor(id) == {n \in 1..Len(log) : events[log[n].i + 1] = id}

Latest(S) == CHOOSE n \in S : \A m \in S : m <= n

\* the task list of an analysis, under the name either draft gives it
TaskList(analysis) ==
  IF "tasks" \in DOMAIN analysis THEN analysis.tasks
  ELSE IF "suggestedTasks" \in DOMAIN analysis THEN analysis.suggestedTasks
  ELSE Undefined

NoTaskAnalysis(analysis) ==
  /\ analysis.eventType = Str("other")
  /\ analysis.requiresSitter = Bool(FALSE)
  /\ analysis.requiresTravel = Bool(FALSE)
  /\ analysis.requiresFormalAttire = Bool(FALSE)
  /\ TaskList(analysis) = Arr(<<>>)

\* the default analysis of the specification: no task, confidence 0.1
IsDefaultAnalysis(analysis) ==
  /\ NoTaskAnalysis(analysis)
  /\ "confidence" \in DOMAIN analysis
  /\ analysis.confidence = Num(DefaultConfidence)

\* the provider call failed or its reply holds no parseable JSON object
CallFailed(reply) ==
  \/ reply.kind = "error"
  \/ reply.kind = "response" /\ reply.content = <<>>
  \/ reply.kind = "response" /\ reply.content # <<>>
       /\ reply.content[1].type # "text"
  \/ reply.kind = "response" /\ reply.content # <<>>
       /\ reply.content[1].type = "text"
       /\ LET m == Match(reply.content[1].text)
          IN ~m.found \/ ~JSONparse(m.text).ok

\* the reply is a JSON object without an event type or without a task list
FieldsMissing(reply) ==
  /\ reply.kind = "response" /\ reply.content # <<>>
  /\ reply.content[1].type = "text"
  /\ LET m == Match(reply.content[1].text)
     IN /\ m.found
        /\ JSONparse(m.text).ok
        /\ \/ Prop(m.text.value, "eventType") = Undefined
           \/ /\ ~IsArray(Prop(m.text.value, "tasks"))
              /\ ~IsArray(Prop(m.text.value, "suggestedTasks"))

\* C1: analyzeCalendarEvent never raises to its caller, and on any failure
\* (provider error, non-text reply, no JSON object, unparseable JSON,
\* missing fields) the value it returns is the default analysis: type
\* 'other', the three flags false, no task, confidence 0.1.
C1_ClientReturnsDefault ==
  \A n \in 1..Len(log) :
    Settled(n) =>
      /\ log[n].outcome.kind = "return"
      /\ (CallFailed(log[n].reply) \/ FieldsMissing(log[n].reply))
           => IsDefaultAnalysis(log[n].outcome.value)

\* C2: after a rate-limit error for an event the dispatcher sleeps the
\* cooldown and its next client call is for the same event; a rate-limited
\* attempt records nothing, so the entry of an event id is what the last
\* attempt that was not rate-limited produced (the successful analysis when
\* that attempt succeeded), and the batch does not return while a
\* rate-limited attempt is the last one made.
C2_RetrySameEvent ==
  /\ \A n \in 1..Len(log) :
       IsRateLimit(log[n].outcome) =>
         IF n < Len(log)
         THEN log[n + 1].i = log[n].i /\ log[n + 1].waited >= rateLimitCooldown
         ELSE pc \in {"cooldown", "loop"} /\ i = log[n].i
  /\ \A id \in EventIds :
       LET kept == {n \in CallsFor(id) :
                      Settled(n) /\ ~IsRateLimit(log[n].outcome)}
       IN IF kept = {}
          THEN id \notin DOMAIN results
          ELSE /\ id \in DOMAIN results
               /\ results[id] =
                    IF log[Latest(kept)].outcome.kind = "return"
                    THEN log[Latest(kept)].outcome.value
                    ELSE DispatcherDefault

\* a batch has returned in which an attempt was rate-limited, the retry
\* succeeded and the entry of the event is the successful analysis
C2_Witness ==
  /\ pc = "done"
  /\ \E n \in 1..(Len(log) - 1) :
       /\ IsRateLimit(log[n].outcome)
       /\ log[n + 1].i = log[n].i
       /\ log[n + 1].outcome = Return(PartyAnalysis)
       /\ results[events[log[n].i + 1]] = PartyAnalysis

\* C3: with analyzeCalendarEvent and analyzeBatchEvents composed, an event
\* whose first provider call is rate-limited and whose next provider call
\* would succeed ends the batch with the successful analysis, not with a
\* default fallback analysis.
C3_RateLimitNotSurfaced ==
  (pc = "done" /\ variant = "enhanced") =>
    \A n \in 1..Len(log) :
      ( /\ log[n].reply = RateLimitError
        /\ log[n].next = TextReply(Text(FALSE, "json", PartyObject, FALSE))
        /\ n = Latest(CallsFor(events[log[n].i + 1])) )
      => /\ results[events[log[n].i + 1]] = PartyAnalysis
         /\ ~IsDefaultAnalysis(results[events[log[n].i + 1]])

\* C4: when analyzeBatchEvents returns, the mapping has an entry for the id
\* of every input event, and an event whose analysis failed is represented
\* by a no-task analysis of type 'other'.
C4_CompleteResults ==
  pc = "done" =>
    \A k \in 1..Len(events) :
      /\ events[k] \in DOMAIN results
      /\ \A n \in CallsFor(events[k]) :
           (n = Latest(CallsFor(events[k])) /\ CallFailed(log[n].reply))
             => NoTaskAnalysis(results[events[k]])

\* C11: in the settings-aware analyzeBatchEvents every Analysis Client call
\* but the first is made after the dispatcher has slept at least
\* delayBetweenRequests since the call before it settled, whatever that
\* call's outcome was.
C11_PacedCalls ==
  variant = "enhanced" =>
    \A n \in 1..(Len(log) - 1) : log[n + 1].waited >= delayBetweenRequests

\* the calls made for the event at an index
CallsAt(idx) == {n \in 1..Len(log) : log[n].i = idx}

OtherError(outcome) == outcome.kind = "throw" /\ ~IsRateLimit(outcome)

\* C12: when the Analysis Client call for an event fails with an error
\* that is not a rate-limit error, the dispatcher has recorded a default
\* fallback analysis under the event's id (it stays until a later event of
\* the same id is analysed), has made no other call for that event since,
\* and has moved on to the next event.
C12_OtherErrorRecordsDefault ==
  \A n \in 1..Len(log) :
    OtherError(log[n].outcome) =>
      /\ n = Latest(CallsAt(log[n].i))
      /\ i > log[n].i
      /\ events[log[n].i + 1] \in DOMAIN results
      /\ n = Latest(CallsFor(events[log[n].i + 1]))
           => IsDefaultAnalysis(results[events[log[n].i + 1]])

\* the call for the first of two events threw an error that is no
\* rate-limit error, the call for the second returned an analysis, and the
\* batch has returned
C12_Witness ==
  /\ pc = "done"
  /\ Len(log) = 2
  /\ events[1] # events[2]
  /\ log[1].outcome = Throw(NetworkMessage)
  /\ log[2].i = 1
  /\ log[2].outcome = Return(PartyAnalysis)
  /\ results[events[1]] = DispatcherDefault

\* C13: the client calls are made in input order (no call for an event is
\* made after a call for a later event), and an event for which no
\* rate-limit error was signalled is passed to the client at most once,
\* exactly once when the batch has returned.
C13_InOrderOncePerEvent ==
  /\ \A n, m \in 1..Len(log) : n < m => log[n].i <= log[m].i
  /\ \A k \in 0..(Len(events) - 1) :
       (\A n \in CallsAt(k) : ~IsRateLimit(log[n].outcome)) =>
         /\ Cardinality(CallsAt(k)) <= 1
         /\ pc = "done" => Cardinality(CallsAt(k)) = 1

\* a batch of two events has returned: the first was rate-limited once and
\* called twice, the second was called once, after the first
C13_Witness ==
  /\ pc = "done"
  /\ Len(events) = 2
  /\ Cardinality(CallsAt(0)) = 2
  /\ Cardinality(CallsAt(1)) = 1
  /\ IsRateLimit(log[1].outcome)
  /\ log[3].i = 1

\* C10: at most one Analysis Client call is in flight at any point of a
\* batch run.
C10_OneCallInFlight == Cardinality(inflight) <= 1

(***************************************************************************)
(* The durable store and the data layer (lib/db/tasks.ts).                 *)
(*                                                                         *)
(* Time is counted in ticks of the clock; a day is TicksPerDay ticks and   *)
(* setDate(getDate() + n) moves a date by n days of that length.           *)
(***************************************************************************)
\* ticks in a day
TicksPerDay == 2
\* number of households
NumHouseholds == 2
\* AnalyzedEvent rows created in one run
MaxEventRows == 2
\* SuggestedTask rows created in one run
MaxTaskRows == 3
\* ticks between the two clock readings of one getUpcomingTasks call
MaxDrift == 1

HouseholdIds == 1..NumHouseholds

Days(n) == n * TicksPerDay

\* calendar events as the data layer reads them: the id and the start; the
\* first event starts in 3 days, the others in 21
CalendarEvents ==
  {[id |-> id, start |-> IF id = 1 THEN Days(3) ELSE Days(21)] : id \in EventIds}

Suggestion(title, priority, days) ==
  Obj([title |-> Str(title), type |-> Str("booking"),
       priority |-> Str(priority), daysBeforeEvent |-> Num(10 * days)])

BookSitter == Suggestion("Book babysitter", "high", 1)
BuyGift == Suggestion("Buy gift", "medium", 1)
ConfirmTime == Suggestion("Confirm time", "low", 4)


\* analyses of the shape lib/db/tasks.ts reads, with and without the
\* forceReanalysis mark, and one of the shape the settings-aware client
\* returns (it has tasks and no suggestedTasks)
Analyses ==
  { [eventType |-> Str("social"),
     suggestedTasks |-> Arr(<<BookSitter, BuyGift>>)],
    [eventType |-> Str("appointment"),
     suggestedTasks |-> Arr(<<ConfirmTime>>),
     forceReanalysis |-> Bool(TRUE)],
    PartyAnalysis }

\* record.name, undefined when the record has no such field
Field(record, name) ==
  IF name \in DOMAIN record THEN record[name] ELSE Undefined

\* JSON.stringify(value): the string that holds the value's JSON text
JSONstringify(value) == [t |-> "string", json |-> value]

\* prisma.analyzedEvent.findUnique({ where: { eventId } })
FindUnique(rows, eventId) == {r \in rows : r.eventId = eventId}

\* include: { tasks: true }
WithTasks(row, tasks) ==
  [row |-> row, tasks |-> {t \in tasks : t.analyzedEventId = row.id}]

\* an upsert that creates a row whether or not one exists
UpsertAlwaysCreates(rows, n, householdId, event, analysis) ==
  LET row == [id |-> n + 1, eventId |-> event.id, householdId |-> householdId,
              eventStart |-> event.start,
              eventType |-> Field(analysis, "eventType"),
              analysisData |-> JSONstringify(analysis)]
  IN [rows |-> rows \cup {row}, row |-> row, created |-> n + 1]

\* prisma.analyzedEvent.upsert({ where: { eventId }, update, create }): the
\* update leaves id, eventId and householdId as they are
Upsert(rows, n, householdId, event, analysis) ==
  IF \E r \in rows : r.eventId = event.id
  THEN LET old == CHOOSE r \in rows : r.eventId = event.id
           row == [old EXCEPT !.eventStart = event.start,
                              !.eventType = Field(analysis, "eventType"),
                              !.analysisData = JSONstringify(analysis)]
       IN [rows |-> (rows \ {old}) \cup {row}, row |-> row, created |-> n]
  ELSE LET row == [id |-> n + 1, eventId |-> event.id,
                   householdId |-> householdId,
                   eventStart |-> event.start,
                   eventType |-> Field(analysis, "eventType"),
                   analysisData |-> JSONstringify(analysis)]
       IN [rows |-> rows \cup {row}, row |-> row, created |-> n + 1]

\* a deleteMany that deletes nothing
DeleteManyKeepsAll(tasks, analyzedEventId) == tasks

\* prisma.suggestedTask.deleteMany({ where: { analyzedEventId } })
DeleteMany(tasks, analyzedEventId) ==
  {t \in tasks : t.analyzedEventId # analyzedEventId}

\* dueDate.setDate(dueDate.getDate() - task.daysBeforeEvent)
DueDate(startDate, task) ==
  startDate - (Prop(task, "daysBeforeEvent").v * TicksPerDay) \div 10

\* prisma.suggestedTask.create for every suggested task of the analysis
CreateTasks(n, row, householdId, startDate, list) ==
  { [id |-> n + k, analyzedEventId |-> row.id, householdId |-> householdId,
     title |-> Prop(list[k], "title").v,
     priority |-> Prop(list[k], "priority").v,
     dueDate |-> DueDate(startDate, list[k]),
     status |-> "pending", completedAt |-> {}, dismissedAt |-> {}] :
    k \in 1..Len(list) }

\* the cache check answers "not cached" whatever the store holds
CacheHitNever(existing, analysis) == FALSE

\* if (existing && !analysis.forceReanalysis)
CacheHit(existing, analysis) ==
  existing # {} /\ ~Truthy(Field(analysis, "forceReanalysis"))

\* the rows a run of saveAnalyzedEvent may still create
Room(existing, analysis) ==
  /\ existing = {} => created.analyzedEvent < MaxEventRows
  /\ IsArray(Field(analysis, "suggestedTasks")) =>
       created.suggestedTask + Len(analysis.suggestedTasks.v) <= MaxTaskRows

\* saveAnalyzedEvent(householdId, event, analysis), run from its call to its
\* return or to the TypeError of analysis.suggestedTasks.map
Save(householdId, event, analysis) ==
  LET existing == FindUnique(analyzedEvent, event.id) IN
  /\ call' = [op |-> "saveAnalyzedEvent", householdId |-> householdId,
              event |-> event, analysis |-> analysis,
              existing |-> {WithTasks(r, suggestedTask) : r \in existing}]
  /\ IF CacheHit(existing, analysis)
     THEN /\ ret' = Return(WithTasks(CHOOSE r \in existing : TRUE,
                                     suggestedTask))
          /\ UNCHANGED <<analyzedEvent, suggestedTask, created>>
     ELSE /\ Room(existing, analysis)
          /\ LET up == Upsert(analyzedEvent, created.analyzedEvent,
                              householdId, event, analysis)
                 kept == DeleteMany(suggestedTask, up.row.id)
                 list == Field(analysis, "suggestedTasks")
             IN /\ analyzedEvent' = up.rows
                /\ IF IsArray(list)
                   THEN LET tasks == CreateTasks(created.suggestedTask,
                                       up.row, householdId, event.start,
                                       list.v)
                        IN /\ suggestedTask' = kept \cup tasks
                           /\ created' =
                                [analyzedEvent |-> up.created,
                                 suggestedTask |->
                                   created.suggestedTask + Len(list.v)]
                           /\ ret' = Return([row |-> up.row,
                                             tasks |-> tasks])
                   ELSE /\ suggestedTask' = kept
                        /\ created' = [created EXCEPT
                                         !.analyzedEvent = up.created]
                        /\ ret' = Throw("Cannot read properties of undefined (reading 'map')")

\* a call of saveAnalyzedEvent by any caller
SaveAnalyzedEvent ==
  /\ UNCHANGED <<batchVars, routeVars, appVars>>
  /\ \E householdId \in HouseholdIds, event \in CalendarEvents,
        analysis \in Analyses : Save(householdId, event, analysis)
  /\ UNCHANGED now

\* updateTaskStatus(taskId, status), as the complete and dismiss routes call
\* it for a signed-in user, of the household caller, with the task id of
\* the request's path; prisma's update throws when no row has the id
UpdateTaskStatus ==
  /\ UNCHANGED <<batchVars, routeVars, appVars>>
  /\ \E taskId \in 1..MaxTaskRows, status \in {"completed", "dismissed"},
        caller \in HouseholdIds :
       /\ call' = [op |-> "updateTaskStatus", taskId |-> taskId,
                   status |-> status, caller |-> caller]
       /\ IF \E t \in suggestedTask : t.id = taskId
          THEN LET old == CHOOSE t \in suggestedTask : t.id = taskId
                   new == IF status = "completed"
                          THEN [old EXCEPT !.status = status,
                                           !.completedAt = {now}]
                          ELSE [old EXCEPT !.status = status,
                                           !.dismissedAt = {now}]
               IN /\ suggestedTask' = (suggestedTask \ {old}) \cup {new}
                  /\ ret' = Return(new)
          ELSE /\ ret' = Throw("Record to update not found.")
               /\ UNCHANGED suggestedTask
  /\ UNCHANGED <<analyzedEvent, created, now>>

\* the tasks left when those of deleted AnalyzedEvents go with them (cascade
\* delete): the ones whose AnalyzedEvent is among the rows left
Cascade(tasks, rows) ==
  {t \in tasks : \E r \in rows : r.id = t.analyzedEventId}

\* POST /api/dev/flush for a user of the household, in development mode
Flush ==
  /\ UNCHANGED <<batchVars, routeVars, appVars>>
  /\ \E householdId \in HouseholdIds :
       LET tasks == {t \in suggestedTask : t.householdId # householdId}
           rows == {r \in analyzedEvent : r.householdId # householdId}
       IN /\ call' = [op |-> "flush", householdId |-> householdId,
                      nodeEnv |-> "development"]
          /\ suggestedTask' = Cascade(tasks, rows)
          /\ analyzedEvent' = rows
          /\ ret' = Return([tasks |-> Cardinality(suggestedTask \ tasks),
                            events |-> Cardinality(analyzedEvent \ rows)])
  /\ UNCHANGED <<created, now>>

\* POST /api/dev/flush when NODE_ENV is not 'development': 403, before the
\* session is looked at
FlushRefused ==
  /\ UNCHANGED <<batchVars, routeVars, appVars>>
  /\ \E householdId \in HouseholdIds :
       call' = [op |-> "flush", householdId |-> householdId,
                nodeEnv |-> "production"]
  /\ ret' = Return([status |-> 403,
                    error |-> "This endpoint is only available in development"])
  /\ UNCHANGED <<analyzedEvent, suggestedTask, created, now>>

(***************************************************************************)
(* Task Bucketizer.                                                        *)
(***************************************************************************)
defaultDaysAhead == 30
thisWeekDays == 7
nextWeekDays == 14

\* the bytes of the priority strings, which the store compares as text
Bytes(string) ==
  CASE string = "high" -> <<104, 105, 103, 104>>
    [] string = "medium" -> <<109, 101, 100, 105, 117, 109>>
    [] string = "low" -> <<108, 111, 119>>

\* a < b for byte strings
RECURSIVE BytesLess(_, _)
BytesLess(a, b) ==
  IF b = <<>> THEN FALSE
  ELSE IF a = <<>> THEN TRUE
  ELSE IF Head(a) # Head(b) THEN Head(a) < Head(b)
  ELSE BytesLess(Tail(a), Tail(b))

TextLess(a, b) == BytesLess(Bytes(a), Bytes(b))

\* an order that ranks high above medium above low
RankLess(a, b) ==
  LET rank == [p \in {"low", "medium", "high"} |->
                 IF p = "low" THEN 1 ELSE IF p = "medium" THEN 2 ELSE 3]
  IN rank[a] < rank[b]

\* orderBy's second key, { priority: 'desc' }: whether a task of priority a,
\* due when one of priority b is due, may come first
PriorityDescending(a, b) == ~TextLess(a, b)

\* orderBy: [{ dueDate: 'asc' }, { priority: 'desc' }]
InOrder(a, b) ==
  \/ a.dueDate < b.dueDate
  \/ a.dueDate = b.dueDate /\ PriorityDescending(a.priority, b.priority)

\* the sequences findMany may answer for a set of rows: every arrangement
\* of the rows that is in order (rows equal in both keys come in any order)
OrderBy(rows) ==
  LET n == Cardinality(rows)
  IN { seq \in [1..n -> rows] :
         /\ \A r \in rows : \E k \in 1..n : seq[k] = r
         /\ \A k \in 1..(n - 1) : InOrder(seq[k], seq[k + 1]) }

\* a where clause without the status filter
WhereAnyStatus(task, householdId, includeCompleted, queryNow, endDate) ==
  /\ task.householdId = householdId
  /\ task.dueDate <= endDate
  /\ task.dueDate >= queryNow

\* the where clause of findMany
Where(task, householdId, includeCompleted, queryNow, endDate) ==
  /\ task.householdId = householdId
  /\ includeCompleted \/ task.status \in {"pending"}
  /\ task.dueDate <= endDate
  /\ task.dueDate >= queryNow

\* the object getUpcomingTasks returns for the rows findMany answered; the
\* clock was read as groupNow when the groups are built
Group(tasks, groupNow) ==
  LET today == groupNow
      thisWeek == groupNow + Days(thisWeekDays)
      nextWeek == groupNow + Days(nextWeekDays)
      IsOverdue(t) == t.dueDate < today
      IsThisWeek(t) == t.dueDate >= today /\ t.dueDate < thisWeek
      IsNextWeek(t) == t.dueDate >= thisWeek /\ t.dueDate < nextWeek
      IsLater(t) == t.dueDate >= nextWeek
  IN [overdue |-> SelectSeq(tasks, IsOverdue),
      thisWeek |-> SelectSeq(tasks, IsThisWeek),
      nextWeek |-> SelectSeq(tasks, IsNextWeek),
      later |-> SelectSeq(tasks, IsLater),
      all |-> tasks]

\* a read that deletes the tasks it answers
GetUpcomingTasksAndDelete ==
  /\ UNCHANGED <<batchVars, routeVars, appVars>>
  /\ \E householdId \in HouseholdIds, includeCompleted \in BOOLEAN :
       LET endDate == now + Days(defaultDaysAhead)
           found == {t \in suggestedTask :
                       Where(t, householdId, includeCompleted, now, endDate)}
       IN \E tasks \in OrderBy(found) :
            /\ call' = [op |-> "getUpcomingTasks", householdId |-> householdId,
                        includeCompleted |-> includeCompleted, now |-> now,
                        groupNow |-> now]
            /\ ret' = Return(Group(tasks, now))
            /\ suggestedTask' = suggestedTask \ found
  /\ UNCHANGED <<analyzedEvent, created, now>>

\* getUpcomingTasks(householdId, { includeCompleted }) with the default
\* daysAhead: the clock is read when the query is built and again, drift
\* ticks later, when the groups are built
GetUpcomingTasks ==
  /\ UNCHANGED <<batchVars, routeVars, appVars>>
  /\ \E householdId \in HouseholdIds, includeCompleted \in BOOLEAN,
        drift \in 0..MaxDrift :
       LET endDate == now + Days(defaultDaysAhead)
           found == {t \in suggestedTask :
                       Where(t, householdId, includeCompleted, now, endDate)}
       IN \E tasks \in OrderBy(found) :
            /\ call' = [op |-> "getUpcomingTasks", householdId |-> householdId,
                        includeCompleted |-> includeCompleted, now |-> now,
                        groupNow |-> now + drift]
            /\ ret' = Return(Group(tasks, now + drift))
  /\ UNCHANGED <<analyzedEvent, suggestedTask, created, now>>

(***************************************************************************)
(* Specification of the data layer: calls that run one after another.      *)
(***************************************************************************)
Init ==
  /\ variant = "enhanced"
  /\ events = <<>>
  /\ i = 0
  /\ pc = "idle"
  /\ results = <<>>
  /\ inflight = {}
  /\ batchResults = <<>>
  /\ elapsed = 0
  /\ rateLimits = 0
  /\ log = <<>>
  /\ analyzedEvent = {}
  /\ suggestedTask = {}
  /\ created = [table \in {"analyzedEvent", "suggestedTask"} |-> 0]
  /\ now = 0
  /\ call = [op |-> "none"]
  /\ ret = [kind |-> "none"]
  /\ request = NoRequest
  /\ savedEvents = <<>>
  /\ response = NoResponse
  /\ InitApp

Next ==
  \/ SaveAnalyzedEvent
  \/ UpdateTaskStatus
  \/ Flush
  \/ FlushRefused

Spec == Init /\ [][Next]_vars

(***************************************************************************)
(* Specification of the Task Bucketizer: getUpcomingTasks applied to a     *)
(* task table of up to MaxTasks rows, each a row saveAnalyzedEvent and     *)
(* updateTaskStatus can leave in the table.                                *)
(***************************************************************************)
\* rows in the task table the bucketizer reads
MaxTasks == 2

\* due dates, in days from now
DueDays == {-1, 0, 2, 7, 10, 14, 20, 31}

\* the status and priority of the rows: pending ones of each priority, and
\* one completed and one dismissed
StatusAndPriority ==
  {<<"pending", "high">>, <<"pending", "medium">>, <<"pending", "low">>,
   <<"completed", "high">>, <<"dismissed", "low">>}

\* the AnalyzedEvent of a household's one analysed event
OwnerRow(householdId) ==
  [id |-> householdId, eventId |-> householdId, householdId |-> householdId,
   eventStart |-> Days(21), eventType |-> Str("social"),
   analysisData |-> JSONstringify([eventType |-> Str("social"),
                                   suggestedTasks |-> Arr(<<BookSitter>>)])]

TaskRows(id) ==
  { [id |-> id, analyzedEventId |-> householdId, householdId |-> householdId,
     title |-> "Book babysitter", priority |-> sp[2],
     dueDate |-> Days(day), status |-> sp[1],
     completedAt |-> IF sp[1] = "completed" THEN {0} ELSE {},
     dismissedAt |-> IF sp[1] = "dismissed" THEN {0} ELSE {}] :
    householdId \in HouseholdIds, sp \in StatusAndPriority,
    day \in DueDays }

TaskTables ==
  UNION { { {table[k] : k \in 1..n} :
              table \in [1..n -> UNION {TaskRows(id) : id \in 1..n}] } :
          n \in 0..MaxTasks }

InitTasks ==
  /\ variant = "enhanced"
  /\ events = <<>>
  /\ i = 0
  /\ pc = "idle"
  /\ results = <<>>
  /\ inflight = {}
  /\ batchResults = <<>>
  /\ elapsed = 0
  /\ rateLimits = 0
  /\ log = <<>>
  /\ suggestedTask \in {table \in TaskTables :
                          \A a, b \in table : a.id = b.id => a = b}
  /\ analyzedEvent = {OwnerRow(t.householdId) : t \in suggestedTask}
  /\ created = [table \in {"analyzedEvent", "suggestedTask"} |-> 0]
  /\ now = 0
  /\ call = [op |-> "none"]
  /\ ret = [kind |-> "none"]
  /\ request = NoRequest
  /\ savedEvents = <<>>
  /\ response = NoResponse
  /\ InitApp

NextTasks == GetUpcomingTasks

SpecTasks == InitTasks /\ [][NextTasks]_vars

(***************************************************************************)
(* Properties of the Task Materializer and of the Task Bucketizer.  call   *)
(* and ret hold the last operation, its arguments, what its first read     *)
(* found and what it answered; the tables are as that operation left them. *)
(***************************************************************************)
Forced(analysis) == Truthy(Field(analysis, "forceReanalysis"))

\* the tasks the AnalyzedEvent of id owns
Owned(id) == {t \in suggestedTask : t.analyzedEventId = id}

Ids(rows) == {r.id : r \in rows}

\* the tasks are those of the list, one for one: as many as the list has,
\* each suggestion's title and priority on a task of its own
DerivedFrom(tasks, list) ==
  /\ Cardinality(tasks) = Len(list)
  /\ \E place \in [1..Len(list) -> tasks] :
       /\ \A j, k \in 1..Len(list) : place[j] = place[k] => j = k
       /\ \A k \in 1..Len(list) :
            /\ place[k].title = Prop(list[k], "title").v
            /\ place[k].priority = Prop(list[k], "priority").v

\* C5: after a forced saveAnalyzedEvent that ran to completion on an event
\* id that already had an AnalyzedEvent, the tasks that AnalyzedEvent owns
\* are exactly the ones the call created and answered, one per suggested
\* task of the new analysis, and none of the tasks it owned before is left
C5_ForcedSaveReplacesTasks ==
  ( /\ call.op = "saveAnalyzedEvent"
    /\ Forced(call.analysis)
    /\ call.existing # {}
    /\ ret.kind = "return" ) =>
  \A old \in call.existing :
    /\ Owned(old.row.id) = ret.value.tasks
    /\ DerivedFrom(Owned(old.row.id), call.analysis.suggestedTasks.v)
    /\ Ids(old.tasks) \cap Ids(suggestedTask) = {}

\* a forced save has replaced two tasks, one of them completed or dismissed,
\* by the one task of the new analysis
C5_Witness ==
  /\ call.op = "saveAnalyzedEvent"
  /\ Forced(call.analysis)
  /\ ret.kind = "return"
  /\ \E old \in call.existing :
       /\ Cardinality(old.tasks) = 2
       /\ \E t \in old.tasks : t.status # "pending"
       /\ Cardinality(Owned(old.row.id)) = 1

\* C6: a saveAnalyzedEvent without forced re-analysis on an event id that
\* already has an AnalyzedEvent writes nothing, and answers the stored
\* record with its tasks
C6_CachedSaveWritesNothing ==
  [][ ( /\ call'.op = "saveAnalyzedEvent"
        /\ ~Forced(call'.analysis)
        /\ FindUnique(analyzedEvent, call'.event.id) # {} ) =>
      ( /\ UNCHANGED <<analyzedEvent, suggestedTask, created>>
        /\ \E r \in FindUnique(analyzedEvent, call'.event.id) :
             ret' = Return(WithTasks(r, suggestedTask)) ) ]_vars

\* an analysis with two suggested tasks was saved, unforced, on an event id
\* whose AnalyzedEvent holds another analysis and owns one task: the one
\* AnalyzedEvent of the event id still holds the first analysis and its task
C6_Witness ==
  /\ call.op = "saveAnalyzedEvent"
  /\ ~Forced(call.analysis)
  /\ IsArray(Field(call.analysis, "suggestedTasks"))
  /\ Cardinality(FindUnique(analyzedEvent, call.event.id)) = 1
  /\ \E old \in call.existing :
       /\ old.row.analysisData # JSONstringify(call.analysis)
       /\ Cardinality(old.tasks) = 1
       /\ ret = Return(old)
       /\ old.row \in analyzedEvent
       /\ Owned(old.row.id) = old.tasks

\* C7: no two AnalyzedEvent rows have the same external event id
C7_OneRowPerEventId ==
  \A r1, r2 \in analyzedEvent : r1.eventId = r2.eventId => r1 = r2

\* a household has saved, forced, an event id whose AnalyzedEvent another
\* household created, and a flush has deleted a row before
C7_Witness ==
  /\ call.op = "saveAnalyzedEvent"
  /\ ret.kind = "return"
  /\ \E old \in call.existing : old.row.householdId # call.householdId
  /\ Cardinality(analyzedEvent) < created.analyzedEvent
  /\ Cardinality(FindUnique(analyzedEvent, call.event.id)) = 1

\* the bucket of a due date, as the specification fixes it
Bucket(dueDate, today) ==
  IF dueDate < today THEN "overdue"
  ELSE IF dueDate < today + Days(thisWeekDays) THEN "thisWeek"
  ELSE IF dueDate < today + Days(nextWeekDays) THEN "nextWeek"
  ELSE "later"

Elements(seq) == {seq[k] : k \in DOMAIN seq}

\* C8: when the clock does not move during a call, getUpcomingTasks answers
\* every pending task of the household that is due now - 1 day, now + 2
\* days, now + 10 days or now + 20 days, in the bucket its due date fixes
\* (overdue, thisWeek, nextWeek, later) and in no other
C8_BucketByDueDate ==
  ( /\ call.op = "getUpcomingTasks"
    /\ call.groupNow = call.now
    /\ ret.kind = "return" ) =>
  \A t \in suggestedTask :
    ( /\ t.householdId = call.householdId
      /\ t.status = "pending"
      /\ t.dueDate - call.now \in {Days(-1), Days(2), Days(10), Days(20)} ) =>
    \A bucket \in {"overdue", "thisWeek", "nextWeek", "later"} :
      (t \in Elements(ret.value[bucket])) <=>
        (bucket = Bucket(t.dueDate, call.now))

\* C9: the list getUpcomingTasks answers is in ascending order of due date,
\* and of two tasks due at the same time the one of lower priority (high
\* above medium above low) does not come first
C9_DueDateThenPriority ==
  (call.op = "getUpcomingTasks" /\ ret.kind = "return") =>
  \A j, k \in DOMAIN ret.value.all :
    j < k =>
      /\ ret.value.all[j].dueDate <= ret.value.all[k].dueDate
      /\ ret.value.all[j].dueDate = ret.value.all[k].dueDate =>
           ~RankLess(ret.value.all[j].priority, ret.value.all[k].priority)

\* the call wrote: it did not answer from the cache
Wrote == call.existing = {} \/ Forced(call.analysis)

\* C14: a saveAnalyzedEvent that writes or re-writes (no cache hit) for an
\* analysis of either Analysis Client returns, and has created exactly one
\* task per suggested task of the analysis, each of status pending and due
\* the event's start minus the suggestion's daysBeforeEvent days
C14_OnePendingTaskPerSuggestion ==
  (call.op = "saveAnalyzedEvent" /\ Wrote) =>
    /\ ret.kind = "return"
    /\ ret.value.tasks \subseteq suggestedTask
    /\ DerivedFrom(ret.value.tasks, call.analysis.suggestedTasks.v)
    /\ \A k \in DOMAIN call.analysis.suggestedTasks.v :
         \E t \in ret.value.tasks :
           /\ t.title = Prop(call.analysis.suggestedTasks.v[k], "title").v
           /\ t.status = "pending"
           /\ t.dueDate = call.event.start
                - Days(Prop(call.analysis.suggestedTasks.v[k],
                            "daysBeforeEvent").v \div 10)

\* the AnalyzedEvent rows that own a task
OwnerOf(t) == {r \in analyzedEvent : r.id = t.analyzedEventId}

\* C17: a task that is in the store before a step and not after it was
\* removed by a flush of the task's household or by a forced
\* saveAnalyzedEvent for the event of the AnalyzedEvent that owns it
C17_RemovedOnlyByFlushOrReanalysis ==
  [][ \A t \in suggestedTask :
        t.id \notin Ids(suggestedTask') =>
          \/ call'.op = "flush" /\ call'.householdId = t.householdId
          \/ /\ call'.op = "saveAnalyzedEvent"
             /\ Forced(call'.analysis)
             /\ \E r \in OwnerOf(t) : r.eventId = call'.event.id ]_vars

\* the tasks of every bucket of an answer and of its list
Answered(value) ==
  Elements(value.all) \cup Elements(value.overdue)
    \cup Elements(value.thisWeek) \cup Elements(value.nextWeek)
    \cup Elements(value.later)

\* C15: getUpcomingTasks without includeCompleted answers no task whose
\* status is not pending, in its list or in a bucket; with includeCompleted
\* it answers the household's tasks of the date window whatever their status
C15_StatusFilter ==
  (call.op = "getUpcomingTasks" /\ ret.kind = "return") =>
    IF call.includeCompleted
    THEN Elements(ret.value.all) =
           {t \in suggestedTask :
              /\ t.householdId = call.householdId
              /\ t.dueDate >= call.now
              /\ t.dueDate <= call.now + Days(defaultDaysAhead)}
    ELSE \A t \in Answered(ret.value) : t.status = "pending"

\* a call without includeCompleted has answered the pending task of a
\* household that also has a completed or dismissed task in the window
C15_Witness ==
  /\ call.op = "getUpcomingTasks"
  /\ ~call.includeCompleted
  /\ Len(ret.value.all) = 1
  /\ \E t \in suggestedTask :
       /\ t.householdId = call.householdId
       /\ t.status # "pending"
       /\ t.dueDate >= call.now
       /\ t.dueDate <= call.now + Days(defaultDaysAhead)

\* C16: a call of getUpcomingTasks leaves the AnalyzedEvent and the
\* SuggestedTask tables as they are
C16_PureRead ==
  [][ call'.op = "getUpcomingTasks" =>
        UNCHANGED <<analyzedEvent, suggestedTask, created>> ]_vars

\* a call has answered tasks, and the tables hold rows
C16_Witness ==
  /\ call.op = "getUpcomingTasks"
  /\ ret.kind = "return"
  /\ Len(ret.value.all) = Cardinality(suggestedTask)
  /\ Len(ret.value.all) > 1
  /\ analyzedEvent # {}


(***************************************************************************)
(* The analyze route: POST /api/calendar/analyze, with either draft of the *)
(* analyzer behind its import.  A request runs from its arrival to its     *)
(* response; the store is the one the earlier requests left.               *)
(***************************************************************************)
\* analyze requests handled in a run
MaxRequests == 2

weekAgoDays == 7
maxEventsToAnalyze == 10

\* the id of an event that started 8 days ago
PastEventId == NumEventIds + 1

\* the calendar event of an id, as the route holds it
EventOf(eventId) ==
  IF eventId = PastEventId THEN [id |-> eventId, start |-> 0 - Days(8)]
  ELSE IF HasEnd(eventId) THEN CHOOSE e \in CalendarEvents : e.id = eventId
  ELSE [id |-> eventId, start |-> Days(21)]

\* events.filter(event => eventDate >= weekAgo)
Relevant(posted) ==
  LET Recent(eventId) == EventOf(eventId).start >= now - Days(weekAgoDays)
  IN SelectSeq(posted, Recent)

\* relevantEvents.slice(0, 10)
Slice(relevant) == SubSeq(relevant, 1, Min(maxEventsToAnalyze, Len(relevant)))

\* an analysis of the simpler draft with one suggested task
SitterAnalysis ==
  [eventType |-> Str("social"), suggestedTasks |-> Arr(<<BookSitter>>)]

\* what analyzeBatchEvents can hold for an event once it has resolved: an
\* analysis its client returned, or for an event without end the
\* dispatcher's default (settings-aware draft) or nothing (simpler draft)
BatchAnalyses(eventId) ==
  IF variant = "enhanced"
  THEN IF HasEnd(eventId) THEN {PartyAnalysis, DefaultAnalysis}
       ELSE {DispatcherDefault}
  ELSE IF HasEnd(eventId) THEN {SitterAnalysis, DefaultAnalysisSimple}
       ELSE {Null}

\* the request arrives with a session and an events array; up to the await
\* of analyzeBatchEvents.  skipCache is read and, but for a log line, not
\* used
Receives(posts) ==
  /\ pc \in {"idle", "responded"}
  /\ \E householdId \in HouseholdIds, posted \in posts,
        skipCache \in BOOLEAN :
       /\ request' = [count |-> request.count + 1,
                      householdId |-> householdId, events |-> posted,
                      skipCache |-> skipCache]
       /\ events' = IF route = "v2" THEN Slice(Relevant(posted))
                    ELSE Relevant(posted)
  /\ pc' = "analyze"
  /\ i' = 0
  /\ results' = <<>>
  /\ savedEvents' = <<>>
  /\ response' = NoResponse
  /\ UNCHANGED <<variant, inflight, batchResults, elapsed, rateLimits, log>>
  /\ UNCHANGED storeVars
  /\ UNCHANGED appVars

\* a request of up to MaxEvents events
RouteReceives ==
  /\ request.count < MaxRequests
  /\ Receives(RequestSeqs)

\* the request has no session, or its body has no events array
RouteRejects ==
  /\ pc \in {"idle", "responded"}
  /\ request.count < MaxRequests
  /\ \E status \in {401, 400} :
       /\ request' = [count |-> request.count + 1, rejected |-> status]
       /\ response' =
            [status |-> status,
             body |-> [error |-> IF status = 401 THEN "Not authenticated"
                                 ELSE "Invalid request: events array required"]]
  /\ pc' = "responded"
  /\ events' = <<>>
  /\ i' = 0
  /\ results' = <<>>
  /\ savedEvents' = <<>>
  /\ UNCHANGED <<variant, inflight, batchResults, elapsed, rateLimits, log>>
  /\ UNCHANGED storeVars
  /\ UNCHANGED appVars

\* the default analysis of the Analysis Client in use
ClientDefault ==
  IF variant = "enhanced" THEN DefaultAnalysis ELSE DefaultAnalysisSimple

\* await analyzeBatchEvents(eventsToAnalyze, ...) resolves: the client was
\* called for every event of the list, in order (the calls of the positions
\* in defaulted came to the client's default, the others to an analysis),
\* and the Map holds what the last call for each id came to
RouteAnalyzed ==
  /\ pc = "analyze"
  /\ \E defaulted \in SUBSET {k \in 1..Len(events) : HasEnd(events[k])} :
       LET analyses ==
             [k \in 1..Len(events) |->
                IF k \in defaulted THEN ClientDefault
                ELSE CHOOSE a \in BatchAnalyses(events[k]) :
                       a # ClientDefault]
       IN
       /\ log' = log \o [k \in 1..Len(events) |->
                           IF HasEnd(events[k])
                           THEN [Call(k - 1, 0) EXCEPT
                                   !.outcome = Return(analyses[k])]
                           ELSE Thrown(k - 1, 0)]
       /\ results' =
            [id \in {events[k] : k \in {j \in 1..Len(events) : analyses[j] # Null}} |->
               LET last == CHOOSE k \in 1..Len(events) :
                             /\ events[k] = id
                             /\ \A j \in (k + 1)..Len(events) : events[j] # id
               IN analyses[last]]
  /\ pc' = "save"
  /\ i' = 0
  /\ UNCHANGED <<variant, events, inflight, batchResults, elapsed, rateLimits>>
  /\ UNCHANGED <<storeVars, routeVars, appVars>>

\* the response of the route's catch
Failed(error) ==
  [status |-> 500,
   body |-> [error |-> "Failed to analyze events", details |-> error.message]]

\* a save loop whose catch goes on with the next event
RouteSavesContinues ==
  /\ pc = "save"
  /\ i < Len(events)
  /\ LET eventId == events[i + 1] IN
     IF eventId \notin DOMAIN results
     THEN /\ UNCHANGED <<storeVars, savedEvents>>
     ELSE /\ \/ /\ HasEnd(eventId)
                /\ Save(request.householdId, EventOf(eventId), results[eventId])
             \/ /\ call' = [op |-> "saveAnalyzedEvent",
                            householdId |-> request.householdId,
                            event |-> EventOf(eventId),
                            analysis |-> results[eventId], existing |-> {}]
                /\ ret' = IF HasEnd(eventId)
                          THEN Throw("Can't reach database server")
                          ELSE NoEndError
                /\ UNCHANGED <<analyzedEvent, suggestedTask, created>>
          /\ savedEvents' = IF ret'.kind = "return"
                            THEN Append(savedEvents, ret'.value.row.id)
                            ELSE savedEvents
          /\ UNCHANGED now
  /\ i' = i + 1
  /\ UNCHANGED <<pc, response>>
  /\ UNCHANGED <<variant, events, results, inflight, batchResults, elapsed,
                 rateLimits, log, request>>
  /\ UNCHANGED appVars

\* one pass of for (const event of eventsToAnalyze): the event's analysis
\* is looked up and, when there is one, saveAnalyzedEvent runs; it returns,
\* or it throws (the store cannot be reached at its first query, event.end
\* is undefined, analysis.suggestedTasks is undefined) and the route's
\* catch answers
RouteSaves ==
  /\ pc = "save"
  /\ i < Len(events)
  /\ LET eventId == events[i + 1] IN
     IF eventId \notin DOMAIN results
     THEN /\ i' = i + 1
          /\ UNCHANGED <<storeVars, savedEvents, response, pc>>
     ELSE /\ \/ /\ HasEnd(eventId)
                /\ Save(request.householdId, EventOf(eventId), results[eventId])
             \/ /\ call' = [op |-> "saveAnalyzedEvent",
                            householdId |-> request.householdId,
                            event |-> EventOf(eventId),
                            analysis |-> results[eventId], existing |-> {}]
                /\ ret' = IF HasEnd(eventId)
                          THEN Throw("Can't reach database server")
                          ELSE NoEndError
                /\ UNCHANGED <<analyzedEvent, suggestedTask, created>>
          /\ IF ret'.kind = "return"
             THEN /\ savedEvents' = Append(savedEvents, ret'.value.row.id)
                  /\ i' = i + 1
                  /\ UNCHANGED <<response, pc>>
             ELSE /\ response' = Failed(ret')
                  /\ pc' = "responded"
                  /\ UNCHANGED <<savedEvents, i>>
          /\ UNCHANGED now
  /\ UNCHANGED <<variant, events, results, inflight, batchResults, elapsed,
                 rateLimits, log, request>>
  /\ UNCHANGED appVars

\* after the loop: getUpcomingTasks(household.id) and the response
RouteResponds ==
  /\ pc = "save"
  /\ i = Len(events)
  /\ LET endDate == now + Days(defaultDaysAhead)
         found == {t \in suggestedTask :
                     Where(t, request.householdId, FALSE, now, endDate)}
     IN \E tasks \in OrderBy(found) :
          /\ call' = [op |-> "getUpcomingTasks",
                      householdId |-> request.householdId,
                      includeCompleted |-> FALSE, now |-> now,
                      groupNow |-> now]
          /\ ret' = Return(Group(tasks, now))
          /\ response' = [status |-> 200,
                          body |-> [analyzed |-> Len(savedEvents),
                                    tasks |-> Group(tasks, now)]]
  /\ pc' = "responded"
  /\ UNCHANGED <<variant, events, i, results, inflight, batchResults, elapsed,
                 rateLimits, log>>
  /\ UNCHANGED <<analyzedEvent, suggestedTask, created, now>>
  /\ UNCHANGED <<request, savedEvents>>
  /\ UNCHANGED appVars

InitRoute ==
  /\ variant \in {"enhanced", "simple"}
  /\ events = <<>>
  /\ i = 0
  /\ pc = "idle"
  /\ results = <<>>
  /\ inflight = {}
  /\ batchResults = <<>>
  /\ elapsed = 0
  /\ rateLimits = 0
  /\ log = <<>>
  /\ analyzedEvent = {}
  /\ suggestedTask = {}
  /\ created = [table \in {"analyzedEvent", "suggestedTask"} |-> 0]
  /\ now = 0
  /\ call = [op |-> "none"]
  /\ ret = [kind |-> "none"]
  /\ request = NoRequest
  /\ savedEvents = <<>>
  /\ response = NoResponse
  /\ InitApp

NextRoute ==
  \/ RouteReceives
  \/ RouteRejects
  \/ RouteAnalyzed
  \/ RouteSaves
  \/ RouteResponds

SpecRoute == InitRoute /\ [][NextRoute]_vars

(***************************************************************************)
(* The analyze route under requests of more than ten events, with either   *)
(* draft of the route deployed.  The events of such a request have no end, *)
(* but for one that has and one that started 8 days ago.                   *)
(***************************************************************************)
\* the request of n events, the first of EventIds at position place (none
\* when place is 0), with the past event in front when past holds
LongRequest(n, place, past) ==
  LET seq == [k \in 1..n |-> IF k = place THEN 1 ELSE NoEndEventId]
  IN IF past THEN <<PastEventId>> \o seq ELSE seq

LongRequests ==
  {LongRequest(n, place, past) :
     n \in (maxEventsToAnalyze - 1)..(maxEventsToAnalyze + 1),
     place \in {0, maxEventsToAnalyze - 1, maxEventsToAnalyze},
     past \in BOOLEAN}

\* a request of about ten events
RouteReceivesMany ==
  /\ request.count < MaxRequests
  /\ Receives(LongRequests)

InitRouteLimit ==
  /\ variant \in {"enhanced", "simple"}
  /\ events = <<>>
  /\ i = 0
  /\ pc = "idle"
  /\ results = <<>>
  /\ inflight = {}
  /\ batchResults = <<>>
  /\ elapsed = 0
  /\ rateLimits = 0
  /\ log = <<>>
  /\ analyzedEvent = {}
  /\ suggestedTask = {}
  /\ created = [table \in {"analyzedEvent", "suggestedTask"} |-> 0]
  /\ now = 0
  /\ call = [op |-> "none"]
  /\ ret = [kind |-> "none"]
  /\ request = NoRequest
  /\ savedEvents = <<>>
  /\ response = NoResponse
  /\ route \in {"v1", "v2"}
  /\ saves = [p \in Procs |-> Idle]
  /\ InitHouseholds
  /\ InitDashboard

NextRouteLimit ==
  \/ RouteReceivesMany
  \/ RouteAnalyzed
  \/ RouteSaves
  \/ RouteResponds

SpecRouteLimit == InitRouteLimit /\ [][NextRouteLimit]_vars


(***************************************************************************)
(* Properties of the analyze route.                                        *)
(***************************************************************************)
\* the last call of the data layer is a saveAnalyzedEvent of the request
\* being handled, and it returned
SavedByRequest ==
  /\ savedEvents # <<>>
  /\ call.op = "saveAnalyzedEvent"
  /\ ret.kind = "return"

\* C18: when a request sent with skipCache set has saved an event that
\* already had an AnalyzedEvent, that row holds the analysis the request
\* obtained for the event and the tasks it owns are those of that
\* analysis, one per suggested task
C18_SkipCacheOverwrites ==
  ( /\ SavedByRequest
    /\ request.skipCache
    /\ call.existing # {} ) =>
  \A old \in call.existing :
    /\ \E r \in analyzedEvent :
         /\ r.id = old.row.id
         /\ r.analysisData = JSONstringify(call.analysis)
    /\ IsArray(Field(call.analysis, "suggestedTasks")) =>
         DerivedFrom(Owned(old.row.id), call.analysis.suggestedTasks.v)

\* the calls of the Analysis Client that reached the provider, among those
\* the log gained in a step
ProviderCalls(before, after) ==
  {after[n] : n \in {m \in (Len(before) + 1)..Len(after) :
                       after[m].outcome.kind = "return"}}

\* C19: when analyzeBatchEvents resolves in a request sent without
\* skipCache, none of the client calls it made was for an event that
\* already had an AnalyzedEvent in the store
C19_NoCallForCachedEvent ==
  [][ ( /\ pc = "analyze"
        /\ pc' = "save"
        /\ ~request.skipCache ) =>
      \A c \in ProviderCalls(log, log') :
        FindUnique(analyzedEvent, events[c.i + 1]) = {} ]_vars

\* the rows the saves of the request answered, with the tasks they own
SavedRows == {WithTasks(r, suggestedTask) :
                r \in {a \in analyzedEvent :
                         \E k \in 1..Len(savedEvents) : savedEvents[k] = a.id}}

\* C20: when saveAnalyzedEvent throws for the k-th event of a request, the
\* route answers 500 with an error and no tasks, the loop ends at k (no
\* later event is saved: once it has responded the request changes nothing
\* in the store), and the rows saved before k, with their tasks, are in
\* the store as they were
C20_SaveErrorFailsBatch ==
  [][ /\ ( /\ pc = "save"
           /\ i < Len(events)
           /\ call'.op = "saveAnalyzedEvent"
           /\ ret'.kind = "throw"
           /\ <<call, ret>> # <<call', ret'>> ) =>
         /\ response'.status = 500
         /\ DOMAIN response'.body = {"error", "details"}
         /\ pc' = "responded"
         /\ i' = i /\ savedEvents' = savedEvents
         /\ SavedRows' = SavedRows
         /\ \A k \in 1..Len(savedEvents) :
              \E s \in SavedRows : s.row.id = savedEvents[k]
      /\ ( pc = "responded" /\ pc' # "analyze" ) =>
           UNCHANGED <<analyzedEvent, suggestedTask>> ]_vars

\* a save threw for the second event of a request whose first event was
\* saved with a task
C20_Witness ==
  /\ pc = "responded"
  /\ response.status = 500
  /\ call.op = "saveAnalyzedEvent"
  /\ ret.kind = "throw"
  /\ i = 1
  /\ Len(savedEvents) = 1
  /\ \E s \in SavedRows : s.tasks # {}

(***************************************************************************)
(* Tenancy of the stored data.                                             *)
(***************************************************************************)
\* C21: every task carries the household of the AnalyzedEvent that owns
\* it, and a saveAnalyzedEvent made for a household answers a row of that
\* household and leaves as they were the rows of other households that it
\* found
C21_HouseholdBoundary ==
  /\ \A t \in suggestedTask :
       \A r \in OwnerOf(t) : r.householdId = t.householdId
  /\ (call.op = "saveAnalyzedEvent" /\ ret.kind = "return") =>
       /\ ret.value.row.householdId = call.householdId
       /\ \A old \in call.existing :
            old.row.householdId # call.householdId =>
              old.row \in analyzedEvent

(***************************************************************************)
(* saveAnalyzedEvent step by step: each await of lib/db/tasks.ts is a step *)
(* of its own, calls of different requests interleave at the awaits, and   *)
(* the server can stop between any two steps of a call.                    *)
(***************************************************************************)
\* the analysis of the appointment, marked for re-analysis
ForcedAnalysis ==
  [eventType |-> Str("appointment"),
   suggestedTasks |-> Arr(<<ConfirmTime>>),
   forceReanalysis |-> Bool(TRUE)]

StepAnalyses == {SitterAnalysis, ForcedAnalysis, PartyAnalysis}

\* the store after saveAnalyzedEvent(1, the first event, SitterAnalysis)
AnalysedRow ==
  Upsert({}, 0, 1, EventOf(1), SitterAnalysis).row

AnalysedTasks ==
  CreateTasks(0, AnalysedRow, 1, EventOf(1).start, SitterAnalysis.suggestedTasks.v)

\* the call is made: startDate and endDate are computed, findUnique is
\* awaited
SaveBegins(p) ==
  /\ saves[p].pc = "idle"
  /\ \E householdId \in HouseholdIds, event \in CalendarEvents,
        analysis \in StepAnalyses :
       saves' = [saves EXCEPT ![p] =
                   [pc |-> "find", householdId |-> householdId,
                    event |-> event, analysis |-> analysis]]
  /\ UNCHANGED <<batchVars, storeVars, routeVars, route, houseVars, clientVars>>

\* findUnique answers; the cache check returns the row found or goes on to
\* the upsert
SaveFinds(p) ==
  /\ saves[p].pc = "find"
  /\ LET existing == FindUnique(analyzedEvent, saves[p].event.id)
         found == {WithTasks(r, suggestedTask) : r \in existing}
     IN saves' = [saves EXCEPT ![p] =
                    IF CacheHit(existing, saves[p].analysis)
                    THEN [saves[p] EXCEPT !.pc = "done"] @@
                         [existing |-> found,
                          ret |-> Return(CHOOSE f \in found : TRUE)]
                    ELSE [saves[p] EXCEPT !.pc = "upsert"] @@
                         [existing |-> found]]
  /\ UNCHANGED <<batchVars, storeVars, routeVars, route, houseVars, clientVars>>

\* the upsert answers the row it created or updated
SaveUpserts(p) ==
  /\ saves[p].pc = "upsert"
  /\ LET up == Upsert(analyzedEvent, created.analyzedEvent,
                      saves[p].householdId, saves[p].event, saves[p].analysis)
     IN /\ up.created <= MaxEventRows
        /\ analyzedEvent' = up.rows
        /\ created' = [created EXCEPT !.analyzedEvent = up.created]
        /\ saves' = [saves EXCEPT ![p] =
                       [saves[p] EXCEPT !.pc = "delete"] @@ [row |-> up.row]]
  /\ UNCHANGED <<suggestedTask, now, call, ret>>
  /\ UNCHANGED <<batchVars, routeVars, route, houseVars, clientVars>>

\* deleteMany answers; analysis.suggestedTasks.map runs and starts one
\* create per suggested task, or throws the TypeError
SaveDeletes(p) ==
  /\ saves[p].pc = "delete"
  /\ suggestedTask' = DeleteMany(suggestedTask, saves[p].row.id)
  /\ LET list == Field(saves[p].analysis, "suggestedTasks")
     IN saves' = [saves EXCEPT ![p] =
                    IF IsArray(list)
                    THEN [saves[p] EXCEPT !.pc = "create"] @@
                         [todo |-> DOMAIN list.v, tasks |-> {}]
                    ELSE [saves[p] EXCEPT !.pc = "done"] @@
                         [ret |-> Throw("Cannot read properties of undefined (reading 'map')")]]
  /\ UNCHANGED <<analyzedEvent, created, now, call, ret>>
  /\ UNCHANGED <<batchVars, routeVars, route, houseVars, clientVars>>

\* one of the creates that Promise.all awaits inserts its task
SaveCreates(p) ==
  /\ saves[p].pc = "create"
  /\ created.suggestedTask < MaxTaskRows
  /\ \E k \in saves[p].todo :
       LET list == saves[p].analysis.suggestedTasks.v
           task == CHOOSE t \in CreateTasks(created.suggestedTask - k + 1,
                                  saves[p].row, saves[p].householdId,
                                  saves[p].event.start, list) :
                     t.id = created.suggestedTask + 1
       IN /\ suggestedTask' = suggestedTask \cup {task}
          /\ created' = [created EXCEPT !.suggestedTask = @ + 1]
          /\ saves' = [saves EXCEPT ![p].todo = @ \ {k},
                                    ![p].tasks = @ \cup {task}]
  /\ UNCHANGED <<analyzedEvent, now, call, ret>>
  /\ UNCHANGED <<batchVars, routeVars, route, houseVars, clientVars>>

\* Promise.all resolves and the call returns the row with its new tasks
SaveReturns(p) ==
  /\ saves[p].pc = "create"
  /\ saves[p].todo = {}
  /\ saves' = [saves EXCEPT ![p] =
                 [saves[p] EXCEPT !.pc = "done"] @@
                 [ret |-> Return([row |-> saves[p].row,
                                  tasks |-> saves[p].tasks])]]
  /\ UNCHANGED <<batchVars, storeVars, routeVars, route, houseVars, clientVars>>

\* an interruption that undoes the deleteMany of the call: the tasks the
\* call found come back
SaveInterruptedRollsBack(p) ==
  /\ saves[p].pc \in {"find", "upsert", "delete", "create"}
  /\ saves' = [saves EXCEPT ![p] =
                 [saves[p] EXCEPT !.pc = "interrupted"] @@
                 [at |-> saves[p].pc]]
  /\ suggestedTask' =
       IF saves[p].pc = "create"
       THEN suggestedTask \cup UNION {f.tasks : f \in saves[p].existing}
       ELSE suggestedTask
  /\ UNCHANGED <<analyzedEvent, created, now, call, ret>>
  /\ UNCHANGED <<batchVars, routeVars, route, houseVars, clientVars>>

\* the server stops while the call waits: the call takes no further step
SaveInterrupted(p) ==
  /\ saves[p].pc \in {"find", "upsert", "delete", "create"}
  /\ saves' = [saves EXCEPT ![p] =
                 [saves[p] EXCEPT !.pc = "interrupted"] @@
                 [at |-> saves[p].pc]]
  /\ UNCHANGED <<batchVars, storeVars, routeVars, route, houseVars, clientVars>>

InitSteps ==
  /\ variant = "simple"
  /\ events = <<>>
  /\ i = 0
  /\ pc = "idle"
  /\ results = <<>>
  /\ inflight = {}
  /\ batchResults = <<>>
  /\ elapsed = 0
  /\ rateLimits = 0
  /\ log = <<>>
  /\ \/ /\ analyzedEvent = {}
        /\ suggestedTask = {}
        /\ created = [table \in {"analyzedEvent", "suggestedTask"} |-> 0]
     \/ /\ analyzedEvent = {AnalysedRow}
        /\ suggestedTask = AnalysedTasks
        /\ created = [table \in {"analyzedEvent", "suggestedTask"} |-> 1]
  /\ now = 0
  /\ call = [op |-> "none"]
  /\ ret = [kind |-> "none"]
  /\ request = NoRequest
  /\ savedEvents = <<>>
  /\ response = NoResponse
  /\ InitApp

NextSteps ==
  \E p \in Procs :
    \/ SaveBegins(p)
    \/ SaveFinds(p)
    \/ SaveUpserts(p)
    \/ SaveDeletes(p)
    \/ SaveCreates(p)
    \/ SaveReturns(p)
    \/ SaveInterrupted(p)

SpecSteps == InitSteps /\ [][NextSteps]_vars

(***************************************************************************)
(* Properties of saveAnalyzedEvent step by step.                           *)
(***************************************************************************)
\* the call stopped after its deleteMany and before any of its creates
InterruptedBeforeCreates(p) ==
  /\ saves[p].pc = "interrupted"
  /\ saves[p].at = "create"
  /\ saves[p].tasks = {}

\* the call has not written: it has not come to its upsert
WroteNothing(q) == "row" \notin DOMAIN saves[q]

\* the call answered from the cache
AnsweredFromCache(q) ==
  /\ saves[q].pc = "done"
  /\ WroteNothing(q)

\* C22: when a forced saveAnalyzedEvent for an analysed event has stopped
\* after its deleteMany and before its creates, and no other call has
\* written, the AnalyzedEvent holds the new analysis and owns no task; a
\* non-forced saveAnalyzedEvent for that event is answered the row it found
\* and leaves the AnalyzedEvent without tasks
C22_InterruptedReanalysisLeavesNoTasks ==
  \A p \in Procs :
    ( /\ InterruptedBeforeCreates(p)
      /\ Forced(saves[p].analysis)
      /\ saves[p].existing # {}
      /\ \A q \in Procs \ {p} : WroteNothing(q) ) =>
    /\ \E r \in analyzedEvent :
         /\ r.id = saves[p].row.id
         /\ r.analysisData = JSONstringify(saves[p].analysis)
    /\ Owned(saves[p].row.id) = {}
    /\ \A q \in Procs \ {p} :
         (saves[q].pc = "done" /\ saves[q].event.id = saves[p].event.id) =>
           /\ AnsweredFromCache(q)
           /\ ~Forced(saves[q].analysis)
           /\ saves[q].ret.kind = "return"
           /\ saves[q].ret.value \in saves[q].existing

\* a forced re-analysis stopped before its creates, and a later call for
\* the event, not forced, was answered the row with the new analysis and
\* no tasks
C22_Witness ==
  \E p, q \in Procs :
    /\ InterruptedBeforeCreates(p)
    /\ Forced(saves[p].analysis)
    /\ \E f \in saves[p].existing : f.tasks # {}
    /\ AnsweredFromCache(q)
    /\ saves[q].event.id = saves[p].event.id
    /\ saves[q].ret.value.tasks = {}
    /\ saves[q].ret.value.row.analysisData = JSONstringify(saves[p].analysis)
    /\ Owned(saves[p].row.id) = {}
    /\ Len(saves[q].analysis.suggestedTasks.v) > 0

\* C26: when two saveAnalyzedEvent calls for one event id, each of which
\* found no AnalyzedEvent, have both returned, the AnalyzedEvent of the
\* event owns as many tasks as the analysis of the call whose upsert came
\* last suggests, one per suggested task
C26_NoDuplicatedTasks ==
  \A p, q \in Procs :
    ( /\ p # q
      /\ saves[p].pc = "done" /\ saves[q].pc = "done"
      /\ saves[p].ret.kind = "return" /\ saves[q].ret.kind = "return"
      /\ saves[p].event.id = saves[q].event.id
      /\ saves[p].existing = {} /\ saves[q].existing = {} ) =>
    \A r \in FindUnique(analyzedEvent, saves[p].event.id) :
      \E w \in {p, q} :
        /\ r.analysisData = JSONstringify(saves[w].analysis)
        /\ DerivedFrom(Owned(r.id), saves[w].analysis.suggestedTasks.v)

(***************************************************************************)
(* Termination of the settings-aware dispatcher.                           *)
(***************************************************************************)
\* the call that settled in a step from pc = "client"
SettledCall == log'[Len(log)]

NotTooOld(posted) ==
  LET Recent(eventId) == EventOf(eventId).start + Days(7) >= now
  IN SelectSeq(posted, Recent)

\* the first n elements of a sequence, all of them when it has fewer
FirstOf(seq, n) == [k \in 1..(IF Len(seq) < n THEN Len(seq) ELSE n) |-> seq[k]]

\* C24: while a request is handled the events passed to analyzeBatchEvents
\* are the first 10, in input order, of the request's events that started
\* no more than 7 days ago; no more than 10 are passed and only these are
\* saved
C24_AtMostTenEvents ==
  (pc \in {"analyze", "save", "responded"} /\ "events" \in DOMAIN request) =>
    /\ Len(events) <= 10
    /\ events = FirstOf(NotTooOld(request.events), 10)
    /\ \A n \in 1..Len(savedEvents) :
         \E r \in analyzedEvent, k \in 1..Len(events) :
           r.id = savedEvents[n] /\ r.eventId = events[k]

(***************************************************************************)
(* Properties of the flush and of the task endpoints.                      *)
(***************************************************************************)
\* the rows of a table that are not of the household
Others(rows, householdId) == {r \in rows : r.householdId # householdId}

\* C25: a flush in development mode for a user of household H leaves no
\* AnalyzedEvent and no task of H and leaves the AnalyzedEvents and tasks
\* of the other households as they were; outside development mode the
\* answer is 403 and both tables are as they were
C25_FlushOwnHouseholdOnly ==
  [][ call'.op = "flush" =>
        IF call'.nodeEnv = "development"
        THEN /\ Others(analyzedEvent', call'.householdId) = analyzedEvent'
             /\ Others(suggestedTask', call'.householdId) = suggestedTask'
             /\ analyzedEvent' = Others(analyzedEvent, call'.householdId)
             /\ suggestedTask' = Others(suggestedTask, call'.householdId)
        ELSE /\ ret'.value.status = 403
             /\ UNCHANGED <<analyzedEvent, suggestedTask>> ]_vars

\* C29: a task that is completed or dismissed keeps its status in every
\* step, and no task has both completedAt and dismissedAt set
C29_TerminalStatuses ==
  [][ \A u \in suggestedTask' :
        /\ ~(u.completedAt # {} /\ u.dismissedAt # {})
        /\ \A t \in suggestedTask :
             (t.id = u.id /\ t.status \in {"completed", "dismissed"}) =>
               u.status = t.status ]_vars

\* C30: a complete or dismiss request of a user of one household leaves
\* the tasks of the other households as they were, status and timestamps
\* included
C30_OwnHouseholdTasksOnly ==
  [][ call'.op = "updateTaskStatus" =>
        \A t \in suggestedTask :
          t.householdId # call'.caller => t \in suggestedTask' ]_vars

(***************************************************************************)
(* The user's household: getOrCreateHousehold of lib/db/tasks.ts and the   *)
(* same lookup in the settings GET, each await a step, calls of different  *)
(* requests interleaving at the awaits.                                    *)
(***************************************************************************)
LookupKinds == {"getOrCreateHousehold", "settings"}

\* the call is made and prisma.user.findUnique is awaited
LookupBegins(p) ==
  /\ lookups[p].pc = "idle"
  /\ \E kind \in LookupKinds :
       lookups' = [lookups EXCEPT ![p] = [pc |-> "find", kind |-> kind]]
  /\ UNCHANGED <<household, user>>
  /\ UNCHANGED <<batchVars, storeVars, routeVars, route, saves, clientVars>>

\* findUnique answers the user with its household: the household is
\* returned, or the call goes on to create one
LookupFinds(p) ==
  /\ lookups[p].pc = "find"
  /\ lookups' = [lookups EXCEPT ![p] =
                   IF user.householdId # {}
                   THEN [lookups[p] EXCEPT !.pc = "done"] @@
                        [ret |-> user.householdId]
                   ELSE [lookups[p] EXCEPT !.pc = "create"]]
  /\ UNCHANGED <<household, user>>
  /\ UNCHANGED <<batchVars, storeVars, routeVars, route, saves, clientVars>>

\* prisma.household.create with users: { connect: { id } }: a new row, and
\* the user is connected to it
LookupCreates(p) ==
  /\ lookups[p].pc = "create"
  /\ LET id == Cardinality(household) + 1
     IN /\ household' = household \cup {[id |-> id]}
        /\ user' = [user EXCEPT !.householdId = {id}]
        /\ lookups' = [lookups EXCEPT ![p] =
                         IF lookups[p].kind = "getOrCreateHousehold"
                         THEN [lookups[p] EXCEPT !.pc = "done"] @@
                              [ret |-> {id}]
                         ELSE [lookups[p] EXCEPT !.pc = "update"] @@
                              [created |-> id]]
  /\ UNCHANGED <<batchVars, storeVars, routeVars, route, saves, clientVars>>

\* settings GET: prisma.user.update sets the user's householdId to the
\* household the call created
LookupUpdates(p) ==
  /\ lookups[p].pc = "update"
  /\ user' = [user EXCEPT !.householdId = {lookups[p].created}]
  /\ lookups' = [lookups EXCEPT ![p].pc = "settings"]
  /\ UNCHANGED household
  /\ UNCHANGED <<batchVars, storeVars, routeVars, route, saves, clientVars>>

\* settings GET: prisma.householdSettings.create for the new household
LookupCreatesSettings(p) ==
  /\ lookups[p].pc = "settings"
  /\ lookups' = [lookups EXCEPT ![p].pc = "refetch"]
  /\ UNCHANGED <<household, user>>
  /\ UNCHANGED <<batchVars, storeVars, routeVars, route, saves, clientVars>>

\* settings GET: the user is read again and its household is the one used
LookupRefetches(p) ==
  /\ lookups[p].pc = "refetch"
  /\ lookups' = [lookups EXCEPT ![p] =
                   [lookups[p] EXCEPT !.pc = "done"] @@
                   [ret |-> user.householdId]]
  /\ UNCHANGED <<household, user>>
  /\ UNCHANGED <<batchVars, storeVars, routeVars, route, saves, clientVars>>

InitLookups ==
  /\ variant = "simple"
  /\ events = <<>>
  /\ i = 0
  /\ pc = "idle"
  /\ results = <<>>
  /\ inflight = {}
  /\ batchResults = <<>>
  /\ elapsed = 0
  /\ rateLimits = 0
  /\ log = <<>>
  /\ analyzedEvent = {}
  /\ suggestedTask = {}
  /\ created = [table \in {"analyzedEvent", "suggestedTask"} |-> 0]
  /\ now = 0
  /\ call = [op |-> "none"]
  /\ ret = [kind |-> "none"]
  /\ request = NoRequest
  /\ savedEvents = <<>>
  /\ response = NoResponse
  /\ InitApp

NextLookups ==
  \E p \in Lookups :
    \/ LookupBegins(p)
    \/ LookupFinds(p)
    \/ LookupCreates(p)
    \/ LookupUpdates(p)
    \/ LookupCreatesSettings(p)
    \/ LookupRefetches(p)

SpecLookups == InitLookups /\ [][NextLookups]_vars

\* C28: when the lookups made for the user have all returned, one
\* household exists and every lookup returned it
C28_OneHouseholdPerUser ==
  ( /\ \A p \in Lookups : lookups[p].pc \in {"idle", "done"}
    /\ \E p \in Lookups : lookups[p].pc = "done" ) =>
  /\ Cardinality(household) = 1
  /\ \A p \in Lookups :
       lookups[p].pc = "done" => lookups[p].ret = {h.id : h \in household}

\* ---------------------------------------------------------------------
\* The Dashboard component: loading the events, the analyze request and
\* the effect that sends it automatically
\* ---------------------------------------------------------------------

\* what the dashboard is followed for
MaxHistory == 6

\* the sizes of the event list /api/calendar/events can answer with
LoadedCounts == 0..2

ADate == [t |-> "date"]
AnError == [t |-> "error"]

DashboardLeaves == <<batchVars, storeVars, routeVars, route, saves, houseVars>>

\* fetchCalendarEvents is called by the effect that follows the loading
\* of the calendars
FetchCalendarEvents ==
  /\ Len(history) < MaxHistory
  /\ dashboard.loads = 0
  /\ \A k \in 1..Len(history) : history[k] # "fetch"
  /\ dashboard' = [dashboard EXCEPT !.loads = 1]
  /\ history' = Append(history, "fetch")
  /\ UNCHANGED DashboardLeaves

\* the events request answers: setEvents on success, setError otherwise.
\* A new events array changes the dependencies of the auto-analyze effect.
FetchResolves ==
  /\ Len(history) < MaxHistory
  /\ dashboard.loads > 0
  /\ \/ \E n \in LoadedCounts :
          /\ dashboard' = [dashboard EXCEPT !.loads = @ - 1, !.events = n,
                                            !.effectDue = TRUE]
          /\ history' = Append(history, "loaded")
     \/ /\ dashboard' = [dashboard EXCEPT !.loads = @ - 1,
                                          !.error = AnError]
        /\ history' = Append(history, "load failed")
  /\ UNCHANGED DashboardLeaves

\* analyzeEvents up to its fetch: nothing without events, else
\* setAnalyzing(true) and the POST of the events
AnalyzeEventsSends(d, by) ==
  IF d.events = 0
    THEN /\ dashboard' = d
         /\ history' = history
    ELSE /\ dashboard' = [d EXCEPT !.analyzing = TRUE, !.requests = @ + 1]
         /\ history' = Append(history, by)

\* the effect "Auto-analyze when events are loaded" runs after a render
\* in which one of its dependencies changed
AutoAnalyzeEffect ==
  /\ Len(history) < MaxHistory
  /\ dashboard.effectDue
  /\ IF /\ dashboard.events > 0
        /\ ~dashboard.analyzing
        /\ dashboard.lastAnalyzed = Null
       THEN AnalyzeEventsSends([dashboard EXCEPT !.effectDue = FALSE], "auto")
       ELSE /\ dashboard' = [dashboard EXCEPT !.effectDue = FALSE]
            /\ history' = history
  /\ UNCHANGED DashboardLeaves

\* the analyze request answers: on success setTasks and setLastAnalyzed,
\* otherwise setError; in both cases setAnalyzing(false), which changes
\* a dependency of the auto-analyze effect
AnalyzeResponds ==
  /\ Len(history) < MaxHistory
  /\ dashboard.requests > 0
  /\ \/ /\ dashboard' = [dashboard EXCEPT !.requests = @ - 1,
                                          !.lastAnalyzed = ADate,
                                          !.analyzing = FALSE,
                                          !.effectDue = TRUE]
        /\ history' = Append(history, "analyzed")
     \/ /\ dashboard' = [dashboard EXCEPT !.requests = @ - 1,
                                          !.error = AnError,
                                          !.analyzing = FALSE,
                                          !.effectDue = TRUE]
        /\ history' = Append(history, "analyze failed")
  /\ UNCHANGED DashboardLeaves

\* the button "Re-analyze Events", shown when no analysis is under way
\* and there are events; a click is handled once the effects of the last
\* render have run
ClickReanalyze ==
  /\ Len(history) < MaxHistory
  /\ ~dashboard.effectDue
  /\ ~dashboard.analyzing
  /\ dashboard.events > 0
  /\ AnalyzeEventsSends(dashboard, "user")
  /\ UNCHANGED DashboardLeaves

\* the button "Update & Re-analyze": fetchCalendarEvents and
\* setLastAnalyzed(null); setting a state to the value it has renders
\* nothing
ClickUpdate ==
  /\ Len(history) < MaxHistory
  /\ ~dashboard.effectDue
  /\ dashboard' = [dashboard EXCEPT
                     !.loads = @ + 1,
                     !.lastAnalyzed = Null,
                     !.effectDue = @ \/ dashboard.lastAnalyzed # Null]
  /\ history' = Append(history, "update")
  /\ UNCHANGED DashboardLeaves

InitDashboardOnly ==
  /\ variant = "simple"
  /\ events = <<>>
  /\ i = 0
  /\ pc = "idle"
  /\ results = <<>>
  /\ inflight = {}
  /\ batchResults = <<>>
  /\ elapsed = 0
  /\ rateLimits = 0
  /\ log = <<>>
  /\ analyzedEvent = {}
  /\ suggestedTask = {}
  /\ created = [table \in {"analyzedEvent", "suggestedTask"} |-> 0]
  /\ now = 0
  /\ call = [op |-> "none"]
  /\ ret = [kind |-> "none"]
  /\ request = NoRequest
  /\ savedEvents = <<>>
  /\ response = NoResponse
  /\ InitApp

NextDashboard ==
  \/ FetchCalendarEvents
  \/ FetchResolves
  \/ AutoAnalyzeEffect
  \/ AnalyzeResponds
  \/ ClickReanalyze
  \/ ClickUpdate

SpecDashboard == InitDashboardOnly /\ [][NextDashboard]_vars

Asks == {"loaded", "user", "update"}

\* C27: between two analyze requests sent by the auto-analyze effect the
\* events were loaded anew or the user asked for an analysis
C27_AutoAnalysisOncePerLoad ==
  \A a \in 1..Len(history) : \A b \in 1..Len(history) :
    (a < b /\ history[a] = "auto" /\ history[b] = "auto") =>
      \E k \in a..b : history[k] \in Asks

====
